---- MODULE Spec2Model ----
(***************************************************************************)
(* A model of converter.py (OpenAPIToPostmanConverter): the Reference      *)
(* Resolver, the Example Synthesizer, the Endpoint Mapper and the          *)
(* Collection Assembler.                                                    *)
(*                                                                          *)
(* JSON / Python values are tagged records:                                 *)
(*   None        [t |-> "null"]                                             *)
(*   True/False  [t |-> "bool", b |-> ...]                                  *)
(*   0           [t |-> "int", n |-> 0]      0.0  [t |-> "float", n |-> 0] *)
(*   "abc"       [t |-> "str", s |-> <<...>>]  a sequence of tokens, each  *)
(*               token a run of characters that no operation of the        *)
(*               program cuts in two ("/" is always a token of its own)    *)
(*   [..]        [t |-> "list", xs |-> <<...>>]                             *)
(*   {..}        [t |-> "dict", kv |-> << <<key, value>>, ... >>] in        *)
(*               insertion order, as Python dicts iterate                   *)
(* A raised exception is the value [t |-> "raise", exc |-> name].           *)
(***************************************************************************)
EXTENDS Integers, Sequences, FiniteSets, TLC

VARIABLES
    openapi_spec,        \* self.openapi_spec
    postman_collection,  \* self.postman_collection
    last_result,         \* the last method called on the converter and its outcome
    converted,           \* history: number of convert_to_postman calls that returned True
    first_collection,    \* history: the collection the first of them built
    config,              \* self.config
    fn,                  \* the helper method applied last ("none" before any)
    arg,                 \* the argument the helper method is applied to
    out,                 \* what the helper method returned (or raised)
    postman_environments,  \* self.postman_environments
    pc,                  \* where main is: "none" when the program is not run through main
    steps,               \* history: the steps run started, each with its outcome
    files,               \* the output files opened for writing, in order, each written or failed
    exit_code,           \* <<the exit code of the process>>, <<>> while it runs
    env,                 \* the Postman environment the emitted hooks read and write
    now                  \* Date.now() of the Postman session

\* the variables of a run of main and of a Postman session
run_vars == <<postman_environments, pc, steps, files, exit_code, env, now>>

vars == <<openapi_spec, postman_collection, last_result, converted, first_collection, config, fn, arg, out,
          postman_environments, pc, steps, files, exit_code, env, now>>

----------------------------------------------------------------------------
(* Values *)

Null == [t |-> "null"]

JBool(b) == [t |-> "bool", b |-> b]

JInt(n) == [t |-> "int", n |-> n]

JFloat(n) == [t |-> "float", n |-> n]

Str(s) == [t |-> "str", s |-> s]

List(xs) == [t |-> "list", xs |-> xs]

Dict(kv) == [t |-> "dict", kv |-> kv]

Raise(e) == [t |-> "raise", exc |-> e]

EmptyDict == Dict(<<>>)

EmptyList == List(<<>>)

\* a one-token string
Tok(a) == Str(<<a>>)

\* F(e), with e evaluated once however often F uses it
Bind(e, F(_)) == CHOOSE y \in { F(v) : v \in {e} } : TRUE

IsDict(v) == v.t = "dict"

IsRaise(v) == v.t = "raise"

Keys(d) == Bind(d.kv, LAMBDA kv : {kv[i][1] : i \in 1..Len(kv)})

HasKey(d, k) == Bind(d.kv, LAMBDA kv : \E i \in 1..Len(kv) : kv[i][1] = k)

\* d[k] for a key the dict holds
Item(d, k) == Bind(d.kv, LAMBDA kv : kv[CHOOSE i \in 1..Len(kv) : kv[i][1] = k][2])

\* dict.get(k, default)
Get(d, k, default) ==
    Bind(d.kv, LAMBDA kv :
        IF \E i \in 1..Len(kv) : kv[i][1] = k
        THEN kv[CHOOSE i \in 1..Len(kv) : kv[i][1] = k][2]
        ELSE default)

\* d[k] = v : replaces the value in place, or appends a new key at the end
SetItem(d, k, v) ==
    Bind(<<d.kv, v>>, LAMBDA a :
        IF \E i \in 1..Len(a[1]) : a[1][i][1] = k
        THEN Dict([i \in 1..Len(a[1]) |-> IF a[1][i][1] = k THEN <<k, a[2]>> ELSE a[1][i]])
        ELSE Dict(Append(a[1], <<k, a[2]>>)))

\* Python truthiness: `if v:`
Truthy(v) ==
    Bind(v, LAMBDA x :
        CASE x.t = "dict" -> Len(x.kv) > 0
          [] x.t = "list" -> Len(x.xs) > 0
          [] x.t = "str" -> Len(x.s) > 0
          [] x.t = "bool" -> x.b
          [] x.t = "int" -> x.n # 0
          [] x.t = "float" -> x.n # 0
          [] OTHER -> FALSE)

\* `k in v` for a string k: "yes", "no", or the exception Python raises
In(k, v) ==
    Bind(v, LAMBDA x :
        CASE x.t = "dict" -> IF \E i \in 1..Len(x.kv) : x.kv[i][1] = k THEN "yes" ELSE "no"
          [] x.t = "str" -> IF \E i \in 1..Len(x.s) : x.s[i] = k THEN "yes" ELSE "no"
          [] x.t = "list" -> IF \E i \in 1..Len(x.xs) : x.xs[i] = Tok(k) THEN "yes" ELSE "no"
          [] OTHER -> "TypeError")

----------------------------------------------------------------------------
(* str.split("/") *)

RECURSIVE SplitFrom(_, _, _)
\* the parts of s[i..], cur being the part collected so far
SplitFrom(s, i, cur) ==
    IF i > Len(s) THEN <<cur>>
    ELSE IF s[i] = "/" THEN <<cur>> \o SplitFrom(s, i + 1, <<>>)
    ELSE SplitFrom(s, i + 1, Append(cur, s[i]))

Split(s) == SplitFrom(s, 1, <<>>)

\* A part as a dictionary key. The strings of this model hold at most one
\* token between two slashes; the empty part is the key "".
PartKey(part) == IF part = <<>> THEN "" ELSE part[1]

----------------------------------------------------------------------------
(* Reference Resolver: _resolve_schema_ref *)

RECURSIVE Walk(_, _, _)
\* the loop over ref_path: `resolved = resolved.get(part, {})` for every part
\* other than "#"; .get on a value that is no dict raises AttributeError
Walk(resolved, parts, i) ==
    IF i > Len(parts) THEN resolved
    ELSE IF parts[i] = <<"#">> THEN Walk(resolved, parts, i + 1)
    ELSE Bind(resolved, LAMBDA r :
            IF ~IsDict(r) THEN Raise("AttributeError")
            ELSE Walk(Get(r, PartKey(parts[i]), EmptyDict), parts, i + 1))

ResolveSchemaRef(spec, schema) ==
    Bind(schema, LAMBDA sch :
        Bind(In("$ref", sch), LAMBDA has :
            IF has = "TypeError" THEN Raise("TypeError")
            ELSE IF has = "no" THEN sch
            ELSE IF ~IsDict(sch) THEN Raise("TypeError")
            ELSE Bind(Item(sch, "$ref"), LAMBDA ref :
                    IF ref.t # "str" THEN Raise("AttributeError")
                    ELSE Walk(spec, Split(ref.s), 1))))

----------------------------------------------------------------------------
(* Example Synthesizer: _generate_example_body *)

\* the interpreter's recursion limit, scaled down: a call nested deeper raises
\* RecursionError
RecursionLimit == 5

Skip == [t |-> "skip"]

RECURSIVE TypesFrom(_, _)
\* [t.get("type") for t in alts if "type" in t], from the i-th alternative on
TypesFrom(alts, i) ==
    IF i > Len(alts) THEN EmptyList
    ELSE Bind(In("type", alts[i]), LAMBDA has :
            IF has = "TypeError" THEN Raise("TypeError")
            ELSE IF has = "yes" /\ ~IsDict(alts[i]) THEN Raise("AttributeError")
            ELSE Bind(TypesFrom(alts, i + 1), LAMBDA rest :
                    IF IsRaise(rest) THEN rest
                    ELSE IF has = "yes" THEN List(<<Item(alts[i], "type")>> \o rest.xs)
                    ELSE rest))

\* the elements a `for t in v` visits, or the TypeError of a value that is not iterable
Iterate(v) ==
    Bind(v, LAMBDA x :
        CASE x.t = "list" -> x
          [] x.t = "dict" -> List([i \in 1..Len(x.kv) |-> Tok(x.kv[i][1])])
          [] x.t = "str" -> List([i \in 1..Len(x.s) |-> Tok(x.s[i])])
          [] OTHER -> Raise("TypeError"))

\* types[-1] if types else "string"
LastOrString(types) == IF Len(types.xs) > 0 THEN types.xs[Len(types.xs)] ELSE Tok("string")

\* types[0] if types else "string"
FirstOrString(types) == IF Len(types.xs) > 0 THEN types.xs[1] ELSE Tok("string")

\* prop_type of lines 83-88; details is known to support `in`
PropType(details) ==
    Bind(In("anyOf", details), LAMBDA has :
        IF has = "yes"
        THEN IF ~IsDict(details) THEN Raise("TypeError")
             ELSE Bind(Iterate(Item(details, "anyOf")), LAMBDA alts :
                    IF IsRaise(alts) THEN alts
                    ELSE Bind(TypesFrom(alts.xs, 1), LAMBDA types :
                            IF IsRaise(types) THEN types ELSE FirstOrString(types)))
        ELSE IF ~IsDict(details) THEN Raise("AttributeError")
        ELSE Get(details, "type", Tok("string")))

\* v[0]
Index0(v) ==
    Bind(v, LAMBDA x :
        CASE x.t = "list" -> IF Len(x.xs) > 0 THEN x.xs[1] ELSE Raise("IndexError")
          [] x.t = "str" -> IF Len(x.s) > 0 THEN Tok(x.s[1]) ELSE Raise("IndexError")
          [] x.t = "dict" -> Raise("KeyError")
          [] OTHER -> Raise("TypeError"))

\* f"<{prop_name}>"
Placeholder(prop_name) == Str(<<"<", prop_name, ">">>)

\* the string branch, lines 91-95
StringExample(prop_name, details) ==
    IF HasKey(details, "enum") THEN Index0(Item(details, "enum"))
    ELSE Placeholder(prop_name)

RECURSIVE GenerateExampleBody(_, _, _)
RECURSIVE ExampleOfProperties(_, _, _, _, _)

\* lines 102-107
ArrayExample(spec, details, depth) ==
    Bind(Get(details, "items", EmptyDict), LAMBDA items_schema :
        IF Truthy(items_schema)
        THEN Bind(GenerateExampleBody(spec, items_schema, depth + 1), LAMBDA e :
                IF IsRaise(e) THEN e ELSE List(<<e>>))
        ELSE EmptyList)

\* one iteration of the loop of lines 77-109: the value example[prop_name]
\* gets, Skip when no branch assigns one, or the exception raised
PropertyExample(spec, prop_name, details, depth) ==
    Bind(In("example", details), LAMBDA has :
        IF has = "TypeError" THEN Raise("TypeError")
        ELSE IF has = "yes"
        THEN IF IsDict(details) THEN Item(details, "example") ELSE Raise("TypeError")
        ELSE Bind(PropType(details), LAMBDA prop_type :
                IF IsRaise(prop_type) THEN prop_type
                ELSE IF prop_type = Tok("string") THEN StringExample(prop_name, details)
                ELSE IF prop_type = Tok("integer") THEN JInt(0)
                ELSE IF prop_type = Tok("number") THEN JFloat(0)
                ELSE IF prop_type = Tok("boolean") THEN JBool(FALSE)
                ELSE IF prop_type = Tok("array") THEN ArrayExample(spec, details, depth)
                ELSE IF prop_type = Tok("object") THEN GenerateExampleBody(spec, details, depth + 1)
                ELSE Skip))

\* the loop of lines 77-109 from the i-th property on
ExampleOfProperties(spec, props, i, example, depth) ==
    IF i > Len(props) THEN example
    ELSE Bind(PropertyExample(spec, props[i][1], props[i][2], depth), LAMBDA v :
            IF IsRaise(v) THEN v
            ELSE IF v = Skip THEN ExampleOfProperties(spec, props, i + 1, example, depth)
            ELSE Bind(SetItem(example, props[i][1], v), LAMBDA next :
                    ExampleOfProperties(spec, props, i + 1, next, depth)))

GenerateExampleBody(spec, schema, depth) ==
    IF depth > RecursionLimit THEN Raise("RecursionError")
    ELSE Bind(ResolveSchemaRef(spec, schema), LAMBDA resolved :
            IF IsRaise(resolved) THEN resolved
            ELSE IF ~IsDict(resolved) THEN Raise("AttributeError")
            ELSE Bind(Get(resolved, "properties", EmptyDict), LAMBDA properties :
                    IF ~IsDict(properties) THEN Raise("AttributeError")
                    ELSE ExampleOfProperties(spec, properties.kv, 1, EmptyDict, depth)))

----------------------------------------------------------------------------
(* Inputs of the resolver and the synthesizer *)

\* the largest number of properties of a schema
MaxProps == 2

\* the name of the i-th property of a schema
PropNames == <<"name", "qty", "mobile", "otp">>

\* "#/a/b/c" from <<"a", "b", "c">>
RECURSIVE Pointer(_)
Pointer(segs) == IF segs = <<>> THEN <<"#">> ELSE Pointer(SubSeq(segs, 1, Len(segs) - 1)) \o <<"/", segs[Len(segs)]>>

Ref(segs) == Dict(<< <<"$ref", Str(Pointer(segs))>> >>)

TypeOnly(ty) == Dict(<< <<"type", Tok(ty)>> >>)

FooSchema == Dict(<< <<"properties", Dict(<< <<"id", TypeOnly("integer")>> >>)>> >>)

\* a schema with an array property whose items point back at the schema
SelfSchema ==
    Dict(<< <<"properties", Dict(<< <<"children",
        Dict(<< <<"type", Tok("array")>>, <<"items", Ref(<<"components", "schemas", "Self">>)>> >>)>> >>)>> >>)

\* a schema with an object property that carries a $ref to the schema
NodeSchema ==
    Dict(<< <<"properties", Dict(<< <<"next",
        Dict(<< <<"type", Tok("object")>>, <<"$ref", Str(Pointer(<<"components", "schemas", "Node">>))>> >>)>> >>)>> >>)

FullDoc ==
    Dict(<< <<"info", Dict(<< <<"title", Tok("API")>> >>)>>,
            <<"components", Dict(<< <<"schemas",
                Dict(<< <<"Foo", FooSchema>>, <<"Self", SelfSchema>>, <<"Node", NodeSchema>> >>)>> >>)>> >>)

\* a document without components
BareDoc == Dict(<< <<"info", Dict(<< <<"title", Tok("API")>> >>)>> >>)

SynthDocs == {FullDoc, BareDoc}

RefFragments ==
    { Ref(<<"components", "schemas", "Foo">>),
      Ref(<<"components", "schemas", "Self">>),
      Ref(<<"components", "schemas", "Node">>),
      Ref(<<"components", "schemas", "Nope">>),
      Ref(<<"definitions", "Foo">>),
      Ref(<<"components">>),
      Ref(<<"info", "title">>),
      Ref(<<"info", "title", "x">>),
      Ref(<<>>),
      Dict(<< <<"$ref", Str(<<"other.json#", "/", "components", "/", "schemas", "/", "Foo">>)>> >>),
      Dict(<< <<"$ref", JInt(1)>> >>) }

Enum(xs) == List([i \in 1..Len(xs) |-> Tok(xs[i])])

AnyOf(alts) == <<"anyOf", List(alts)>>

\* the property schemas the synthesizer is tried on
PropDetails ==
    { TypeOnly(ty) : ty \in {"string", "integer", "number", "boolean", "array", "object", "null"} }
    \cup
    { EmptyDict,
      Dict(<< <<"type", Tok("string")>>, <<"enum", Enum(<<"red", "green">>)>> >>),
      Dict(<< <<"type", Tok("string")>>, <<"enum", EmptyList>> >>),
      Dict(<< <<"enum", Enum(<<"red">>)>> >>),
      Dict(<< <<"type", Tok("integer")>>, <<"example", JInt(7)>> >>),
      Dict(<< <<"type", Tok("null")>>, <<"example", Tok("ex")>> >>),
      Dict(<< <<"example", Null>>, <<"enum", EmptyList>> >>),
      Dict(<< AnyOf(<<TypeOnly("integer"), TypeOnly("string")>>) >>),
      Dict(<< AnyOf(<<TypeOnly("integer"), TypeOnly("string")>>), <<"type", Tok("string")>>,
              <<"enum", Enum(<<"red">>)>> >>),
      Dict(<< AnyOf(<<EmptyDict, TypeOnly("boolean"), TypeOnly("number")>>) >>),
      Dict(<< AnyOf(<<TypeOnly("null"), TypeOnly("string")>>) >>),
      Dict(<< AnyOf(<<>>), <<"type", Tok("boolean")>> >>),
      Dict(<< <<"type", Tok("array")>>, <<"items", TypeOnly("string")>> >>),
      Dict(<< <<"type", Tok("array")>>, <<"items", Ref(<<"components", "schemas", "Foo">>)>> >>),
      Dict(<< <<"type", Tok("object")>>,
              <<"properties", Dict(<< <<"city", TypeOnly("string")>>, <<"zip", TypeOnly("integer")>> >>)>> >>),
      Dict(<< <<"type", Tok("object")>>, <<"$ref", Str(Pointer(<<"components", "schemas", "Foo">>))>> >>),
      Ref(<<"components", "schemas", "Foo">>),
      Tok("oops") }

\* the schemas with n properties, named PropNames[1..n]
RECURSIVE PropsOfLen(_)
PropsOfLen(n) ==
    IF n = 0 THEN {<<>>}
    ELSE {Append(kv, <<PropNames[n], d>>) : kv \in PropsOfLen(n - 1), d \in PropDetails}

PropLists == UNION {PropsOfLen(n) : n \in 0..MaxProps}

\* schemas without a `required` list, and schemas of up to two properties
\* with one that names the first property
PropSchemas ==
    { Dict(<< <<"properties", Dict(kv)>> >>) : kv \in PropLists }
    \cup
    { Dict(<< <<"required", Enum(<<PropNames[1]>>)>>, <<"properties", Dict(kv)>> >>) :
        kv \in PropsOfLen(1) \cup PropsOfLen(2) }

\* fragments that declare no properties
PlainFragments ==
    { EmptyDict, TypeOnly("string"), TypeOnly("integer"), TypeOnly("number"), TypeOnly("boolean"),
      Dict(<< <<"properties", Null>> >>),
      Dict(<< <<"properties", EmptyList>> >>) }

\* a parameter object
Param(loc, name) == Dict(<< <<"name", Tok(name)>>, <<"in", Tok(loc)>> >>)

JsonBody(schema) ==
    Dict(<< <<"content", Dict(<< <<"application/json", Dict(<< <<"schema", schema>> >>)>> >>)>> >>)

VerifySchema ==
    Dict(<< <<"properties", Dict(<< <<"mobile", TypeOnly("string")>>,
                                    <<"otp", TypeOnly("string")>>,
                                    <<"qty", TypeOnly("integer")>> >>)>> >>)

MobileOnlySchema == Dict(<< <<"properties", Dict(<< <<"mobile", TypeOnly("string")>> >>)>> >>)

BadEnumSchema ==
    Dict(<< <<"properties", Dict(<< <<"name", Dict(<< <<"type", Tok("string")>>, <<"enum", EmptyList>> >>)>> >>)>> >>)

----------------------------------------------------------------------------
(* Endpoint Mapper: _is_public_endpoint, _convert_endpoint_to_postman *)

\* config.json as _load_config returns it
LoadedConfig ==
    Dict(<< <<"openapi_url", Tok("http://localhost:8000/openapi.json")>>,
            <<"base_url", Tok("http://localhost:8000")>>,
            <<"output_collection", Tok("postman_collection.json")>> >>)

\* str.startswith
StartsWith(s, prefix) == Len(prefix) <= Len(s) /\ SubSeq(s, 1, Len(prefix)) = prefix

public_paths ==
    << <<"/", "common", "/", "signup">>,
       <<"/", "common", "/", "login">>,
       <<"/", "common", "/", "verify">>,
       <<"/">>,
       <<"/", "docs">>,
       <<"/", "openapi.json">>,
       <<"/", "redoc">> >>

IsPublicEndpoint(path) == \E i \in 1..Len(public_paths) : StartsWith(path, public_paths[i])

\* str.upper and str.lower on the method tokens of the model
UpperTok(a) ==
    CASE a \in {"get", "Get", "GET"} -> "GET"
      [] a \in {"post", "Post", "POST"} -> "POST"
      [] a = "x-internal" -> "X-INTERNAL"
      [] a = "parameters" -> "PARAMETERS"
      [] OTHER -> a

\* the key as it is, not lower-cased
SameTok(a) == a

LowerTok(a) ==
    CASE a \in {"get", "Get", "GET"} -> "get"
      [] a \in {"post", "Post", "POST"} -> "post"
      [] OTHER -> a

BearerAuth ==
    Dict(<< <<"type", Tok("bearer")>>,
            <<"bearer", List(<< Dict(<< <<"key", Tok("token")>>,
                                        <<"value", Tok("{{access_token}}")>>,
                                        <<"type", Tok("string")>> >>) >>)>> >>)

NoAuth == Dict(<< <<"type", Tok("noauth")>> >>)

\* lines 153-172
AuthFor(path) == IF ~IsPublicEndpoint(path) THEN BearerAuth ELSE NoAuth

RECURSIVE NonEmptyParts(_, _)
\* [p for p in parts if p], from the i-th part on
NonEmptyParts(parts, i) ==
    IF i > Len(parts) THEN <<>>
    ELSE (IF parts[i] # <<>> THEN <<Str(parts[i])>> ELSE <<>>) \o NonEmptyParts(parts, i + 1)

\* `not v`
Not(v) == JBool(~Truthy(v))

\* lines 186-191, with `disabled` set to the required flag itself
QueryEntryRequiredDisabled(param) ==
    Dict(<< <<"key", Get(param, "name", Null)>>,
            <<"value", Str(<<>>)>>,
            <<"description", Get(param, "description", Str(<<>>))>>,
            <<"disabled", JBool(Truthy(Get(param, "required", JBool(FALSE))))>> >>)

\* lines 186-191
QueryEntry(param) ==
    Dict(<< <<"key", Get(param, "name", Null)>>,
            <<"value", Str(<<>>)>>,
            <<"description", Get(param, "description", Str(<<>>))>>,
            <<"disabled", Not(Get(param, "required", JBool(FALSE)))>> >>)

\* lines 193-197
PathVariableEntry(param) ==
    Dict(<< <<"key", Get(param, "name", Null)>>,
            <<"value", Str(<<>>)>>,
            <<"description", Get(param, "description", Str(<<>>))>> >>)

RECURSIVE CollectParams(_, _, _, _)
\* the loop of lines 179-197: <<query_params, path_variables>>
CollectParams(params, i, query_params, path_variables) ==
    IF i > Len(params) THEN <<query_params, path_variables>>
    ELSE Bind(Get(params[i], "in", Null), LAMBDA param_in :
            IF param_in = Tok("query")
            THEN Bind(Append(query_params, QueryEntry(params[i])), LAMBDA q :
                    CollectParams(params, i + 1, q, path_variables))
            ELSE IF param_in = Tok("path")
            THEN Bind(Append(path_variables, PathVariableEntry(params[i])), LAMBDA v :
                    CollectParams(params, i + 1, query_params, v))
            ELSE CollectParams(params, i + 1, query_params, path_variables))

\* lines 139-143: the url of a new request
BaseUrl(path) ==
    Dict(<< <<"raw", Str(<<"{{base_url}}">> \o path)>>,
            <<"host", List(<<Tok("{{base_url}}")>>)>>,
            <<"path", List(NonEmptyParts(Split(path), 1))>> >>)

\* lines 175-202: the url with the parameters of the operation
UrlFor(path, details) ==
    IF ~HasKey(details, "parameters") THEN BaseUrl(path)
    ELSE Bind(CollectParams(Item(details, "parameters").xs, 1, <<>>, <<>>), LAMBDA collected :
            Bind(IF collected[1] # <<>> THEN SetItem(BaseUrl(path), "query", List(collected[1]))
                 ELSE BaseUrl(path), LAMBDA url :
                IF collected[2] # <<>> THEN SetItem(url, "variable", List(collected[2]))
                ELSE url))

\* str(n) for the numbers of the model
NumTok(n) == CASE n = 0 -> "0" [] n = 1 -> "1" [] n = 7 -> "7" [] OTHER -> "n"

RECURSIVE Dumps(_)
RECURSIVE DumpsPairs(_, _)
RECURSIVE DumpsElems(_, _)
\* json.dumps(v, indent=2) as tokens; the white space of the layout is left out
Dumps(v) ==
    CASE v.t = "dict" -> <<"{">> \o DumpsPairs(v.kv, 1) \o <<"}">>
      [] v.t = "list" -> <<"[">> \o DumpsElems(v.xs, 1) \o <<"]">>
      [] v.t = "str" -> <<"\"">> \o v.s \o <<"\"">>
      [] v.t = "int" -> <<NumTok(v.n)>>
      [] v.t = "float" -> <<NumTok(v.n), ".", "0">>
      [] v.t = "bool" -> IF v.b THEN <<"true">> ELSE <<"false">>
      [] OTHER -> <<"null">>

DumpsPairs(kv, i) ==
    IF i > Len(kv) THEN <<>>
    ELSE <<"\"", kv[i][1], "\"", ":">> \o Dumps(kv[i][2])
         \o (IF i < Len(kv) THEN <<",">> ELSE <<>>) \o DumpsPairs(kv, i + 1)

DumpsElems(xs, i) ==
    IF i > Len(xs) THEN <<>>
    ELSE Dumps(xs[i]) \o (IF i < Len(xs) THEN <<",">> ELSE <<>>) \o DumpsElems(xs, i + 1)

NoValue == [t |-> "none"]

\* a method of the converter with the outcome of a call: "True", "False" or
\* the name of the exception raised
Outcome(method, result) == [call |-> method, result |-> result]

NoCall == Outcome("none", "none")

\* the converter is used directly, not through main
NotRun ==
    /\ postman_environments = Null
    /\ pc = "none"
    /\ steps = <<>>
    /\ files = <<>>
    /\ exit_code = <<>>
    /\ env = NoValue
    /\ now = 0

VerifyPath == <<"/", "common", "/", "verify">>

\* lines 217-223 with otp set whether or not the example has it
VerifyOverridesSettingOtp(path, example_body) ==
    IF path # VerifyPath THEN example_body
    ELSE Bind(IF HasKey(example_body, "mobile")
              THEN SetItem(example_body, "mobile", Tok("{{mobile}}")) ELSE example_body, LAMBDA m :
            SetItem(m, "otp", Tok("1234")))

\* lines 217-223
VerifyOverrides(path, example_body) ==
    IF path # VerifyPath THEN example_body
    ELSE Bind(IF HasKey(example_body, "mobile")
              THEN SetItem(example_body, "mobile", Tok("{{mobile}}")) ELSE example_body, LAMBDA m :
            IF HasKey(m, "otp") THEN SetItem(m, "otp", Tok("1234")) ELSE m)

\* lines 225-233
RawBody(example_body) ==
    Dict(<< <<"mode", Tok("raw")>>,
            <<"raw", Str(Dumps(example_body))>>,
            <<"options", Dict(<< <<"raw", Dict(<< <<"language", Tok("json")>> >>)>> >>)>> >>)

NoBody == [t |-> "nobody"]

\* lines 205-233: the body of the request, NoBody when none is set, or the
\* exception of the synthesizer
BodyFor(spec, path, details) ==
    IF ~HasKey(details, "requestBody") THEN NoBody
    ELSE Bind(Get(Item(details, "requestBody"), "content", EmptyDict), LAMBDA content :
            IF ~HasKey(content, "application/json") THEN NoBody
            ELSE Bind(Get(Item(content, "application/json"), "schema", EmptyDict), LAMBDA schema :
                    IF ~Truthy(schema) THEN NoBody
                    ELSE Bind(GenerateExampleBody(spec, schema, 1), LAMBDA example_body :
                            IF IsRaise(example_body) THEN example_body
                            ELSE Bind(VerifyOverrides(path, example_body), LAMBDA b : RawBody(b)))))

\* lines 240-302: the pre-request hook of the verify request (its text is one token)
VerifyPrerequestEvent ==
    Dict(<< <<"listen", Tok("prerequest")>>,
            <<"script", Dict(<< <<"type", Tok("text/javascript")>>,
                                <<"exec", List(<<Tok("verify_autofill_mobile_script")>>)>> >>)>> >>)

\* lines 128-149 and 153-172: the request with its name, url, description and auth
RequestHead(path, method, details) ==
    Bind(Dict(<< <<"method", Tok(UpperTok(method))>>,
                 <<"header", List(<< Dict(<< <<"key", Tok("Content-Type")>>,
                                             <<"value", Tok("application/json")>>,
                                             <<"type", Tok("text")>> >>) >>)>>,
                 <<"url", UrlFor(path, details)>> >>), LAMBDA request :
        Bind(IF Truthy(Get(details, "description", Null))
             THEN SetItem(request, "description", Item(details, "description"))
             ELSE request, LAMBDA described :
            SetItem(described, "auth", AuthFor(path))))

ConvertEndpointToPostman(spec, path, method, details) ==
    Bind(BodyFor(spec, path, details), LAMBDA body :
        IF IsRaise(body) THEN body
        ELSE Bind(IF body = NoBody THEN RequestHead(path, method, details)
                  ELSE SetItem(RequestHead(path, method, details), "body", body), LAMBDA request :
                Bind(Dict(<< <<"name", Get(details, "summary", Str(<<UpperTok(method), " ">> \o path))>>,
                             <<"request", request>> >>), LAMBDA item :
                    IF path = VerifyPath
                    THEN SetItem(SetItem(item, "event", List(<<VerifyPrerequestEvent>>)), "response", EmptyList)
                    ELSE SetItem(item, "response", EmptyList))))

----------------------------------------------------------------------------
(* Collection Assembler: convert_to_postman *)

HttpMethods == {"get", "post", "put", "delete", "patch", "options", "head"}

\* lines 311-477: the two collection-level hooks (the text of each is one token)
CollectionScripts ==
    List(<< Dict(<< <<"listen", Tok("prerequest")>>,
                    <<"script", Dict(<< <<"type", Tok("text/javascript")>>,
                                        <<"exec", List(<<Tok("token_validation_script")>>)>> >>)>> >>),
            Dict(<< <<"listen", Tok("test")>>,
                    <<"script", Dict(<< <<"type", Tok("text/javascript")>>,
                                        <<"exec", List(<<Tok("token_capture_script")>>)>> >>)>> >>) >>)

\* lines 491-517; info is the `info` object of the specification
NewCollection(info, cfg) ==
    Dict(<< <<"info", Dict(<< <<"name", Get(info, "title", Str(<<"API", " ", "Collection">>))>>,
                              <<"description", Get(info, "description", Tok("Imported from OpenAPI specification"))>>,
                              <<"schema", Tok("https://schema.getpostman.com/json/collection/v2.1.0/collection.json")>>,
                              <<"_exporter_id", Tok("openapi-converter")>> >>)>>,
            <<"item", EmptyList>>,
            <<"auth", BearerAuth>>,
            <<"event", CollectionScripts>>,
            <<"variable", List(<< Dict(<< <<"key", Tok("base_url")>>,
                                          <<"value", Item(cfg, "base_url")>>,
                                          <<"type", Tok("string")>> >>) >>)>> >>)

\* lines 530-531 with tags[-1]
LastTagOf(details) ==
    Bind(Get(details, "tags", List(<<Tok("Default")>>)), LAMBDA tags :
        IF Truthy(tags) THEN tags.xs[Len(tags.xs)] ELSE Tok("Default"))

\* lines 530-531: the tag an operation is grouped under
TagOf(details) ==
    Bind(Get(details, "tags", List(<<Tok("Default")>>)), LAMBDA tags :
        IF Truthy(tags) THEN Index0(tags) ELSE Tok("Default"))

\* lines 534-542; tag_groups is the dict from tag to group
AddToTagGroups(tag_groups, tag, item) ==
    Bind(IF ~HasKey(tag_groups, tag)
         THEN SetItem(tag_groups, tag, Dict(<< <<"name", tag>>, <<"item", EmptyList>> >>))
         ELSE tag_groups, LAMBDA with_group :
        Bind(Item(with_group, tag), LAMBDA group :
            SetItem(with_group, tag, SetItem(group, "item", List(Append(Item(group, "item").xs, item))))))

RECURSIVE GroupMethods(_, _, _, _, _)
\* the inner loop of lines 524-543 from the j-th key of the path item on:
\* tag_groups afterwards, or the exception raised
GroupMethods(spec, tag_groups, path, methods, j) ==
    IF j > Len(methods) THEN tag_groups
    ELSE IF LowerTok(methods[j][1]) \notin HttpMethods
    THEN GroupMethods(spec, tag_groups, path, methods, j + 1)
    ELSE IF ~IsDict(methods[j][2]) THEN Raise("AttributeError")
    ELSE Bind(TagOf(methods[j][2]), LAMBDA tag :
            IF IsRaise(tag) THEN tag
            ELSE Bind(ConvertEndpointToPostman(spec, path, methods[j][1], methods[j][2]),
                      LAMBDA postman_request :
                    IF IsRaise(postman_request) THEN postman_request
                    ELSE Bind(AddToTagGroups(tag_groups, tag, postman_request), LAMBDA groups :
                            GroupMethods(spec, groups, path, methods, j + 1))))

RECURSIVE GroupPaths(_, _, _, _)
\* the outer loop of lines 523-543 from the i-th path on
GroupPaths(spec, tag_groups, paths, i) ==
    IF i > Len(paths) THEN tag_groups
    ELSE IF ~IsDict(paths[i][2]) THEN Raise("AttributeError")
    ELSE Bind(GroupMethods(spec, tag_groups, paths[i][1], paths[i][2].kv, 1), LAMBDA after :
            IF IsRaise(after) THEN after
            ELSE GroupPaths(spec, after, paths, i + 1))

\* list(d.values())
Values(d) == Bind(d.kv, LAMBDA kv : List([i \in 1..Len(kv) |-> kv[i][2]]))

\* convert_to_postman with tag_groups starting as start_groups:
\* self.postman_collection afterwards and the outcome of the call, "True",
\* "False" or the name of the exception raised
AssembleOutcome(spec, cfg, old_collection, start_groups) ==
    IF ~Truthy(spec) THEN [collection |-> old_collection, result |-> "False"]
    ELSE IF ~IsDict(spec) THEN [collection |-> old_collection, result |-> "AttributeError"]
    ELSE IF ~IsDict(Get(spec, "info", EmptyDict))
    THEN [collection |-> old_collection, result |-> "AttributeError"]
    ELSE IF ~HasKey(cfg, "base_url") THEN [collection |-> old_collection, result |-> "KeyError"]
    ELSE Bind(NewCollection(Get(spec, "info", EmptyDict), cfg), LAMBDA collection :
            Bind(Get(spec, "paths", EmptyDict), LAMBDA paths :
                IF ~IsDict(paths) THEN [collection |-> collection, result |-> "AttributeError"]
                ELSE Bind(GroupPaths(spec, start_groups, paths.kv, 1), LAMBDA tag_groups :
                        IF IsRaise(tag_groups) THEN [collection |-> collection, result |-> tag_groups.exc]
                        ELSE [collection |-> SetItem(collection, "item", Values(tag_groups)),
                              result |-> "True"])))

\* the groups of a collection as the dict from tag to group
GroupsOf(collection) ==
    IF ~IsDict(collection) THEN EmptyDict
    ELSE Bind(Item(collection, "item").xs, LAMBDA gs :
            Dict([i \in 1..Len(gs) |-> <<Item(gs[i], "name"), gs[i]>>]))

\* convert_to_postman with tag_groups kept from the previous run
ConvertOutcomeKeepingGroups(spec, cfg, old_collection) ==
    AssembleOutcome(spec, cfg, old_collection, GroupsOf(old_collection))

\* convert_to_postman: tag_groups starts empty (line 520)
ConvertOutcome(spec, cfg, old_collection) ==
    AssembleOutcome(spec, cfg, old_collection, EmptyDict)

----------------------------------------------------------------------------
(* The specification documents the converter is run on *)

\* the largest number of keys under all paths of a document together
MaxOps == 3

\* the largest number of convert_to_postman calls that return True on one converter
MaxCalls == 2

AssemblerPaths == { <<"/", "widgets">>, <<"/", "common", "/", "verify">> }

Tags(xs) == <<"tags", Enum(xs)>>

\* the operation objects of the documents
OpDetails ==
    { EmptyDict,
      Dict(<< Tags(<<>>), <<"summary", Tok("List")>> >>),
      Dict(<< Tags(<<"Auth", "Widgets">>), <<"requestBody", JsonBody(VerifySchema)>> >>),
      Dict(<< Tags(<<"Widgets">>), <<"requestBody", JsonBody(BadEnumSchema)>> >>) }

\* a key of a path item with its value: operations under "get" and "POST",
\* and the path-level `parameters` list
MethodEntries ==
    { <<k, d>> : k \in {"get", "POST"}, d \in OpDetails }
    \cup { <<"parameters", List(<<Param("path", "id")>>)>> }

RECURSIVE PathItems(_)
\* the path items with n keys, no key twice
PathItems(n) ==
    IF n = 0 THEN {<<>>}
    ELSE UNION { { Append(es, e) : e \in {y \in MethodEntries : \A i \in 1..Len(es) : es[i][1] # y[1]} } :
                 es \in PathItems(n - 1) }

PathsObjects ==
    {<<>>}
    \cup { << <<p, Dict(es)>> >> : p \in AssemblerPaths, es \in UNION {PathItems(n) : n \in 0..MaxOps} }
    \cup UNION { { << <<pq[1], Dict(es1)>>, <<pq[2], Dict(es2)>> >> :
                     es1 \in PathItems(n[1]), es2 \in PathItems(n[2]) } :
                 pq \in { << <<"/", "widgets">>, <<"/", "common", "/", "verify">> >> },
                 n \in { m \in (0..MaxOps) \X (0..MaxOps) : m[1] + m[2] <= MaxOps } }

DocInfo == <<"info", Dict(<< <<"title", Tok("Widget API")>>, <<"version", Tok("1.0")>> >>)>>

\* the documents a fetch can return: the empty document, one without `paths`,
\* and those with up to MaxOps keys under at most two paths
AssemblerDocs ==
    { EmptyDict, Dict(<<DocInfo>>) }
    \cup { Dict(<< DocInfo, <<"paths", Dict(ps)>>, <<"components", Item(FullDoc, "components")>> >>) : ps \in PathsObjects }

----------------------------------------------------------------------------
(* The converter object *)

Init ==
    /\ config = LoadedConfig
    /\ openapi_spec = Null
    /\ postman_collection = Null
    /\ last_result = NoCall
    /\ converted = 0
    /\ first_collection = Null
    /\ NotRun
    /\ fn = "none"
    /\ arg = NoValue
    /\ out = NoValue

\* fetch_openapi_spec: the response is a document, or the request fails.
\* A converter fetches its document once, as in run.
FetchOpenapiSpec ==
    /\ openapi_spec = Null
    /\ \/ \E doc \in AssemblerDocs :
             /\ openapi_spec' = doc
             /\ last_result' = Outcome("fetch_openapi_spec", "True")
       \/ /\ last_result' = Outcome("fetch_openapi_spec", "False")
          /\ UNCHANGED openapi_spec
    /\ UNCHANGED <<postman_collection, converted, first_collection, config, fn, arg, out, run_vars>>

\* convert_to_postman
ConvertToPostman ==
    /\ converted < MaxCalls
    /\ \E o \in {ConvertOutcome(openapi_spec, config, postman_collection)} :
        /\ postman_collection' = o.collection
        /\ last_result' = Outcome("convert_to_postman", o.result)
        /\ converted' = IF o.result = "True" THEN converted + 1 ELSE converted
        /\ first_collection' = IF o.result = "True" /\ converted = 0 THEN o.collection
                               ELSE first_collection
    /\ UNCHANGED <<openapi_spec, config, fn, arg, out, run_vars>>

Next == FetchOpenapiSpec \/ ConvertToPostman

Spec == Init /\ [][Next]_vars

----------------------------------------------------------------------------
(* Environment Generator: generate_environments *)

\* line 560
Roles == <<"Admin", "Teacher", "Student">>

\* role.lower()
LowerRole(role) ==
    CASE role = "Admin" -> "admin"
      [] role = "Teacher" -> "teacher"
      [] role = "Student" -> "student"
      [] OTHER -> role

EnvVariable(key, value, type) ==
    Dict(<< <<"key", Tok(key)>>, <<"value", value>>, <<"type", Tok(type)>>, <<"enabled", JBool(TRUE)>> >>)

\* lines 567-604 with access_token of type default
EnvironmentValuesNoSecret(role, cfg) ==
    List(<< EnvVariable("base_url", Item(cfg, "base_url"), "default"),
            EnvVariable("access_token", Str(<<>>), "default"),
            EnvVariable("token_expiry", Str(<<>>), "default"),
            EnvVariable("user_id", Str(<<>>), "default"),
            EnvVariable("role", Tok(LowerRole(role)), "default"),
            EnvVariable("mobile", Str(<<>>), "default") >>)

\* lines 567-604: the variable records of the environment of a role
EnvironmentValues(role, cfg) ==
    List(<< EnvVariable("base_url", Item(cfg, "base_url"), "default"),
            EnvVariable("access_token", Str(<<>>), "secret"),
            EnvVariable("token_expiry", Str(<<>>), "default"),
            EnvVariable("user_id", Str(<<>>), "default"),
            EnvVariable("role", Tok(LowerRole(role)), "default"),
            EnvVariable("mobile", Str(<<>>), "default") >>)

\* lines 564-609: the environment of a role
Environment(api_title, role, cfg) ==
    Dict(<< <<"id", Str(<<"auto-generated-env-", LowerRole(role)>>)>>,
            <<"name", Str(api_title.s \o <<" Environment (", role, ")">>)>>,
            <<"values", EnvironmentValues(role, cfg)>>,
            <<"_postman_variable_scope", Tok("environment")>>,
            <<"_postman_exported_at", Str(<<>>)>>,
            <<"_postman_exported_using", Tok("OpenAPI to Postman Converter")>> >>)

\* generate_environments: self.postman_environments afterwards and the
\* outcome of the call
GenerateOutcome(spec, cfg, old_environments) ==
    IF ~Truthy(spec) THEN [environments |-> old_environments, result |-> "False"]
    ELSE IF ~IsDict(spec) \/ ~IsDict(Get(spec, "info", EmptyDict))
    THEN [environments |-> old_environments, result |-> "AttributeError"]
    ELSE IF ~HasKey(cfg, "base_url") THEN [environments |-> EmptyList, result |-> "KeyError"]
    ELSE Bind(Get(Get(spec, "info", EmptyDict), "title", Tok("API")), LAMBDA api_title :
            [environments |-> List([i \in 1..Len(Roles) |-> Environment(api_title, Roles[i], cfg)]),
             result |-> "True"])

----------------------------------------------------------------------------
(* File Writer: save_files *)

\* lines 644 and 650-652: the files in the order they are written
OutputFiles(cfg) ==
    << Item(cfg, "output_collection"),
       Tok("postman_environment_admin.json"),
       Tok("postman_environment_teacher.json"),
       Tok("postman_environment_student.json") >>

\* save_files: the files opened for writing and the outcome of the call.
\* fail = 0: the output folder cannot be made; fail = i: writing the i-th
\* file fails (IOError); fail beyond the last file: nothing fails.
SaveOutcome(cfg, collection, environments, fail) ==
    IF ~Truthy(collection) \/ ~Truthy(environments) THEN [files |-> <<>>, result |-> "False"]
    ELSE IF fail = 0 THEN [files |-> <<>>, result |-> "False"]
    ELSE IF ~HasKey(cfg, "output_collection") THEN [files |-> <<>>, result |-> "KeyError"]
    ELSE Bind(OutputFiles(cfg), LAMBDA names :
            IF fail > Len(names)
            THEN [files |-> [i \in 1..Len(names) |-> <<names[i], "written">>], result |-> "True"]
            ELSE [files |-> [i \in 1..fail |-> <<names[i], IF i < fail THEN "written" ELSE "failed">>],
                  result |-> "False"])

----------------------------------------------------------------------------
(* The helper methods, applied to one argument *)

InitSynth ==
    /\ \/ openapi_spec \in SynthDocs /\ arg \in RefFragments \cup PlainFragments
       \/ openapi_spec = FullDoc /\ arg \in PropSchemas
    /\ fn = "none"
    /\ out = NoValue
    /\ postman_collection = Null
    /\ last_result = NoCall
    /\ converted = 0
    /\ first_collection = Null
    /\ NotRun
    /\ config = LoadedConfig

\* self._resolve_schema_ref(arg)
ResolveSchemaRefCall ==
    /\ fn = "none"
    /\ fn' = "_resolve_schema_ref"
    /\ out' = ResolveSchemaRef(openapi_spec, arg)
    /\ UNCHANGED <<openapi_spec, arg, postman_collection, last_result, converted, first_collection, config, run_vars>>

\* self._generate_example_body(arg)
GenerateExampleBodyCall ==
    /\ fn = "none"
    /\ fn' = "_generate_example_body"
    /\ out' = GenerateExampleBody(openapi_spec, arg, 1)
    /\ UNCHANGED <<openapi_spec, arg, postman_collection, last_result, converted, first_collection, config, run_vars>>

NextSynth == ResolveSchemaRefCall \/ GenerateExampleBodyCall

SpecSynth == InitSynth /\ [][NextSynth]_vars

----------------------------------------------------------------------------
(* Claims about the synthesizer and the resolver (under SpecSynth) *)

\* the properties the fragment declares, once resolved (none when it has none)
DeclaredProps(spec, fragment) ==
    LET r == ResolveSchemaRef(spec, fragment) IN
    IF IsDict(r) /\ IsDict(Get(r, "properties", EmptyDict))
    THEN Get(r, "properties", EmptyDict).kv
    ELSE <<>>

\* the type the reference rule selects for a property
ClaimedType(details) ==
    IF HasKey(details, "anyOf")
    THEN LET alts == Item(details, "anyOf").xs
             withType == {i \in 1..Len(alts) : HasKey(alts[i], "type")}
         IN  IF withType = {} THEN Tok("string")
             ELSE Item(alts[CHOOSE i \in withType : \A j \in withType : i <= j], "type")
    ELSE IF HasKey(details, "type") THEN Item(details, "type")
    ELSE Tok("string")

RuleTypes == {Tok("string"), Tok("integer"), Tok("number"), Tok("boolean"), Tok("object")}

RecognizedTypes == RuleTypes \cup {Tok("array")}

\* the value the reference rule gives a property it covers
RuleValue(spec, prop_name, details) ==
    LET ty == ClaimedType(details) IN
    IF HasKey(details, "example") THEN Item(details, "example")
    ELSE IF ty = Tok("string")
    THEN IF HasKey(details, "enum") THEN Item(details, "enum").xs[1]
         ELSE Str(<<"<", prop_name, ">">>)
    ELSE IF ty = Tok("integer") THEN JInt(0)
    ELSE IF ty = Tok("number") THEN JFloat(0)
    ELSE IF ty = Tok("boolean") THEN JBool(FALSE)
    ELSE GenerateExampleBody(spec, details, 2)

Generated == fn = "_generate_example_body"

\* C5: every property with an explicit example, or of type string, integer,
\* number, boolean or object (the type being that of the first anyOf alternative
\* that has one, else the declared one, else string), gets the value of the
\* reference rule in the example _generate_example_body returns.
C5_ReferenceRule ==
    (Generated /\ IsDict(out)) =>
        LET props == DeclaredProps(openapi_spec, arg) IN
        \A i \in 1..Len(props) :
            LET prop_name == props[i][1]
                details == props[i][2]
            IN  (HasKey(details, "example") \/ ClaimedType(details) \in RuleTypes) =>
                    /\ HasKey(out, prop_name)
                    /\ Item(out, prop_name) = RuleValue(openapi_spec, prop_name, details)

\* an anyOf property (integer first) and a string property with an enum were synthesized
C5_Witness ==
    /\ Generated
    /\ arg = Dict(<< <<"properties", Dict(<<
            <<"name", Dict(<< AnyOf(<<TypeOnly("integer"), TypeOnly("string")>>) >>)>>,
            <<"qty", Dict(<< <<"type", Tok("string")>>, <<"enum", Enum(<<"red", "green">>)>> >>)>> >>)>> >>)
    /\ out = Dict(<< <<"name", JInt(0)>>, <<"qty", Tok("red")>> >>)

IsPlaceholderList(v) == v.t = "list" /\ Len(v.xs) = 1 /\ v.xs[1].t = "str"

\* C6: a fragment whose own type is a primitive is synthesized as that type's
\* primitive example, an array property with items {type: string} as a
\* one-element list holding a placeholder string, and an array property
\* without an items schema as the empty list.
C6_PrimitiveFragments ==
    Generated =>
        /\ arg = TypeOnly("integer") => out = JInt(0)
        /\ arg = TypeOnly("number") => out = JFloat(0)
        /\ arg = TypeOnly("boolean") => out = JBool(FALSE)
        /\ arg = TypeOnly("string") => out.t = "str"
        /\ IsDict(out) =>
            LET props == DeclaredProps(openapi_spec, arg) IN
            \A i \in 1..Len(props) :
                /\ props[i][2] = Dict(<< <<"type", Tok("array")>>, <<"items", TypeOnly("string")>> >>)
                    => HasKey(out, props[i][1]) /\ IsPlaceholderList(Item(out, props[i][1]))
                /\ props[i][2] = TypeOnly("array")
                    => HasKey(out, props[i][1]) /\ Item(out, props[i][1]) = EmptyList

\* C7: the keys of the synthesized example are the declared property names,
\* and a property of an unrecognized type is included with the placeholder
\* "<property_name>".
C7_KeysAreDeclaredNames ==
    (Generated /\ IsDict(out)) =>
        LET props == DeclaredProps(openapi_spec, arg) IN
        /\ Keys(out) = {props[i][1] : i \in 1..Len(props)}
        /\ \A i \in 1..Len(props) :
            (~HasKey(props[i][2], "example") /\ ClaimedType(props[i][2]) \notin RecognizedTypes)
                => HasKey(out, props[i][1])
                   /\ Item(out, props[i][1]) = Str(<<"<", props[i][1], ">">>)

\* C8: _generate_example_body never raises, and returns the empty mapping for
\* a schema that declares no usable properties.
C8_NeverRaises ==
    Generated =>
        /\ ~IsRaise(out)
        /\ DeclaredProps(openapi_spec, arg) = <<>> => out = EmptyDict

\* the pointers #/a/b/c of RefFragments, as their segments
PointerSegs ==
    { <<"components", "schemas", "Foo">>, <<"components", "schemas", "Self">>,
      <<"components", "schemas", "Node">>, <<"components", "schemas", "Nope">>,
      <<"definitions", "Foo">>, <<"components">>, <<"info", "title">>,
      <<"info", "title", "x">> }

RECURSIVE AllExist(_, _)
AllExist(doc, segs) ==
    segs = <<>> \/ (IsDict(doc) /\ HasKey(doc, Head(segs)) /\ AllExist(Item(doc, Head(segs)), Tail(segs)))

RECURSIVE Target(_, _)
Target(doc, segs) == IF segs = <<>> THEN doc ELSE Target(Item(doc, Head(segs)), Tail(segs))

\* C9: _resolve_schema_ref returns a fragment without $ref itself, the value a
\* pointer leads to when every segment exists and the empty mapping when one
\* is absent; it never raises and leaves the specification document alone.
C9_ResolverTotal ==
    [][fn' = "_resolve_schema_ref" =>
        /\ openapi_spec' = openapi_spec
        /\ ~IsRaise(out')
        /\ (IsDict(arg) /\ ~HasKey(arg, "$ref")) => out' = arg
        /\ \A segs \in PointerSegs :
            arg = Ref(segs) =>
                out' = IF AllExist(openapi_spec, segs) THEN Target(openapi_spec, segs) ELSE EmptyDict
      ]_vars

----------------------------------------------------------------------------
(* The Endpoint Mapper applied to one operation (SpecMapper) *)

\* the largest number of parameters of an operation
MaxParams == 2

MapperPaths ==
    { <<"/">>,
      <<"/", "widgets">>,
      <<"/", "users", "/", "{id}">>,
      <<"/", "common", "/", "login">>,
      <<"/", "common", "/", "verify">>,
      <<"/", "common", "/", "verify", "/", "resend">>,
      <<"/", "docs">>,
      <<"/", "redoc">>,
      <<"widgets">> }

MapperMethods == {"get", "POST"}

ParamSet ==
    { Param("query", "limit"),
      SetItem(Param("query", "q"), "required", JBool(TRUE)),
      SetItem(SetItem(Param("query", "page"), "required", JBool(FALSE)), "description", Tok("page number")),
      SetItem(Param("path", "id"), "required", JBool(TRUE)),
      SetItem(Param("header", "X-Trace"), "required", JBool(TRUE)),
      Dict(<< <<"$ref", Str(Pointer(<<"components", "parameters", "Limit">>))>> >>) }

RECURSIVE ParamLists(_)
ParamLists(n) ==
    IF n = 0 THEN {<<>>}
    ELSE ParamLists(n - 1) \cup {Append(ps, q) : ps \in ParamLists(n - 1), q \in ParamSet}

RequestBodies ==
    { JsonBody(VerifySchema),
      JsonBody(Ref(<<"components", "schemas", "Foo">>)),
      JsonBody(BadEnumSchema),
      JsonBody(MobileOnlySchema),
      JsonBody(EmptyDict),
      Dict(<< <<"content", Dict(<< <<"text/plain", Dict(<< <<"schema", VerifySchema>> >>)>> >>)>> >>) }

\* the operation objects: with parameters; with a request body, alone and
\* next to a parameter; with a summary and a description
MapperDetails ==
    { EmptyDict }
    \cup { Dict(<< <<"parameters", List(ps)>> >>) : ps \in ParamLists(MaxParams) }
    \cup { Dict(<< <<"requestBody", b>> >>) : b \in RequestBodies }
    \cup { Dict(<< <<"parameters", List(<<Param("query", "limit")>>)>>, <<"requestBody", b>> >>) :
             b \in RequestBodies }
    \cup { Dict(<< <<"summary", Tok("Do it")>>, <<"description", Tok("Does it")>> >>) }

InitMapper ==
    /\ openapi_spec = FullDoc
    /\ arg \in [path : MapperPaths, method : MapperMethods, details : MapperDetails]
    /\ fn = "none"
    /\ out = NoValue
    /\ postman_collection = Null
    /\ last_result = NoCall
    /\ converted = 0
    /\ first_collection = Null
    /\ NotRun
    /\ config = LoadedConfig

\* self._convert_endpoint_to_postman(path, method, details)
ConvertEndpointToPostmanCall ==
    /\ fn = "none"
    /\ fn' = "_convert_endpoint_to_postman"
    /\ out' = ConvertEndpointToPostman(openapi_spec, arg.path, arg.method, arg.details)
    /\ UNCHANGED <<openapi_spec, arg, postman_collection, last_result, converted, first_collection, config, run_vars>>

NextMapper == ConvertEndpointToPostmanCall

SpecMapper == InitMapper /\ [][NextMapper]_vars

----------------------------------------------------------------------------
(* Claims about the Endpoint Mapper (under SpecMapper) *)

\* the call returned a Request Item
Mapped == fn = "_convert_endpoint_to_postman" /\ IsDict(out)

\* the public endpoints as the policy names them: signup, login, verify (and
\* what lies under them), the root path itself, docs, openapi.json and redoc
ClaimedPublic(path) ==
    \/ path = <<"/">>
    \/ \E prefix \in { <<"/", "common", "/", "signup">>, <<"/", "common", "/", "login">>,
                       <<"/", "common", "/", "verify">>, <<"/", "docs">>,
                       <<"/", "openapi.json">>, <<"/", "redoc">> } :
          StartsWith(path, prefix)

\* C1: the Endpoint Mapper attaches the bearer auth block with token
\* {{access_token}} to every endpoint that is not public and the no-auth block
\* only to the public ones, so /widgets and /users/{id} get bearer auth.
C1_BearerUnlessPublic ==
    Mapped =>
        Item(Item(out, "request"), "auth") = IF ClaimedPublic(arg.path) THEN NoAuth ELSE BearerAuth

\* the parameters the operation declares
DeclaredParams(details) ==
    IF HasKey(details, "parameters") THEN Item(details, "parameters").xs ELSE <<>>

\* those of one location, in declaration order
ParamsIn(details, loc) ==
    SelectSeq(DeclaredParams(details), LAMBDA param : HasKey(param, "in") /\ Item(param, "in") = Tok(loc))

IsRequired(param) == HasKey(param, "required") /\ Item(param, "required") = JBool(TRUE)

\* C10: the url's query list holds one entry per declared query parameter, in
\* declaration order, with empty value and disabled = not required; the
\* variable list holds one entry per path parameter; parameters of other
\* locations produce no entry, and an empty list is not emitted as a key.
C10_QueryAndPathParams ==
    Mapped =>
        LET url == Item(Item(out, "request"), "url")
            q == ParamsIn(arg.details, "query")
            v == ParamsIn(arg.details, "path")
        IN  /\ HasKey(url, "query") <=> q # <<>>
            /\ HasKey(url, "variable") <=> v # <<>>
            /\ q # <<>> =>
                LET entries == Item(url, "query").xs IN
                /\ Len(entries) = Len(q)
                /\ \A i \in 1..Len(q) :
                    /\ Item(entries[i], "key") = Item(q[i], "name")
                    /\ Item(entries[i], "value") = Str(<<>>)
                    /\ Item(entries[i], "disabled") = JBool(~IsRequired(q[i]))
            /\ v # <<>> =>
                LET entries == Item(url, "variable").xs IN
                /\ Len(entries) = Len(v)
                /\ \A i \in 1..Len(v) : Item(entries[i], "key") = Item(v[i], "name")

\* a required query parameter and a header parameter were mapped: one
\* enabled query entry, no variable list
C10_Witness ==
    /\ Mapped
    /\ DeclaredParams(arg.details) =
          << SetItem(Param("query", "q"), "required", JBool(TRUE)),
             SetItem(Param("header", "X-Trace"), "required", JBool(TRUE)) >>
    /\ Item(Item(Item(out, "request"), "url"), "query") =
          List(<< Dict(<< <<"key", Tok("q")>>, <<"value", Str(<<>>)>>,
                          <<"description", Str(<<>>)>>, <<"disabled", JBool(FALSE)>> >>) >>)
    /\ ~HasKey(Item(Item(out, "request"), "url"), "variable")

----------------------------------------------------------------------------
(* Claims about the Collection Assembler (under Spec) *)

\* the last call on the converter was a convert_to_postman that returned True
Converted == last_result = Outcome("convert_to_postman", "True")

\* the <<path, key, value>> triples of a paths object in iteration order
PathTriples(path, methods) ==
    [j \in 1..Len(methods.kv) |-> <<path, methods.kv[j][1], methods.kv[j][2]>>]

RECURSIVE TriplesFrom(_, _)
TriplesFrom(paths, i) ==
    IF i > Len(paths) THEN <<>>
    ELSE PathTriples(paths[i][1], paths[i][2]) \o TriplesFrom(paths, i + 1)

DocTriples(doc) ==
    IF IsDict(doc) /\ HasKey(doc, "paths") THEN TriplesFrom(Item(doc, "paths").kv, 1) ELSE <<>>

\* the seven verbs in every spelling of upper and lower case the documents use
VerbsAnyCase == HttpMethods \cup {"GET", "Get", "POST", "Post"}

\* the operations of the document: keys that are a verb as written, and keys
\* that are a verb once lower-cased
ExactOps(doc) == SelectSeq(DocTriples(doc), LAMBDA op : op[2] \in HttpMethods)

RecognizedOps(doc) == SelectSeq(DocTriples(doc), LAMBDA op : op[2] \in VerbsAnyCase)

\* the tag-groups of the collection
Groups == Item(postman_collection, "item").xs

RECURSIVE CountFrom(_, _)
CountFrom(groups, i) ==
    IF i > Len(groups) THEN 0
    ELSE Len(Item(groups[i], "item").xs) + CountFrom(groups, i + 1)

\* the number of Request Items over all tag-groups
ItemCount == CountFrom(Groups, 1)

\* C2 as stated: after convert_to_postman the number of Request Items over all
\* tag-groups is the number of (path, key) pairs whose key is one of
\* get/post/put/delete/patch/options/head; every other key produces no item.
C2_CountsExactVerbKeys ==
    Converted => ItemCount = Len(ExactOps(openapi_spec))

\* C2 as amended: after convert_to_postman the number of Request Items over
\* all tag-groups is the number of (path, key) pairs whose key, lower-cased, is
\* one of get/post/put/delete/patch/options/head; every other key produces no item.
C2_CountsVerbKeysAnyCase ==
    Converted => ItemCount = Len(RecognizedOps(openapi_spec))

\* a document with a `get`, a `POST` and a path-level `parameters` key was
\* converted into two items
C2_Witness ==
    /\ Converted
    /\ {op[2] : op \in {DocTriples(openapi_spec)[i] : i \in 1..Len(DocTriples(openapi_spec))}}
          = {"get", "POST", "parameters"}
    /\ ItemCount = 2

\* the tag the claim gives an operation: its first declared tag, "Default"
\* when tags is absent or empty
ClaimedTag(details) ==
    IF HasKey(details, "tags") /\ Item(details, "tags").xs # <<>>
    THEN Item(details, "tags").xs[1]
    ELSE Tok("Default")

\* the Request Item of an operation
ItemOf(op) == ConvertEndpointToPostman(openapi_spec, op[1], op[2], op[3])

\* C3: after convert_to_postman every recognized operation's Request Item is
\* in exactly one tag-group, the one named by its first declared tag, or
\* "Default" when tags is absent or empty; group names are pairwise distinct
\* and no tag-group is empty.
C3_GroupedByFirstTag ==
    Converted =>
        LET ops == RecognizedOps(openapi_spec) IN
        /\ \A g, h \in 1..Len(Groups) : g # h => Item(Groups[g], "name") # Item(Groups[h], "name")
        /\ \A g \in 1..Len(Groups) : Item(Groups[g], "item").xs # <<>>
        /\ \A i \in 1..Len(ops) :
            \A g \in 1..Len(Groups) :
                LET members == Item(Groups[g], "item").xs IN
                (\E m \in 1..Len(members) : members[m] = ItemOf(ops[i]))
                    <=> Item(Groups[g], "name") = ClaimedTag(ops[i][3])
        /\ \A i \in 1..Len(ops) :
            \E g \in 1..Len(Groups) : Item(Groups[g], "name") = ClaimedTag(ops[i][3])

\* operations without tags, with an empty tags list and with the tags
\* Auth, Widgets were grouped: a Default group of two and an Auth group
C3_Witness ==
    /\ Converted
    /\ Len(Groups) = 2
    /\ \E g \in 1..2 : Item(Groups[g], "name") = Tok("Default") /\ Len(Item(Groups[g], "item").xs) = 2
    /\ \E g \in 1..2 : Item(Groups[g], "name") = Tok("Auth")
    /\ \E i \in 1..Len(DocTriples(openapi_spec)) :
          DocTriples(openapi_spec)[i][3] = Dict(<< Tags(<<>>), <<"summary", Tok("List")>> >>)
    /\ \E i \in 1..Len(DocTriples(openapi_spec)) : DocTriples(openapi_spec)[i][3] = EmptyDict

\* the place in the iteration of the first operation with the tag
FirstWithTag(ops, tag) ==
    CHOOSE i \in 1..Len(ops) :
        /\ ClaimedTag(ops[i][3]) = tag
        /\ \A j \in 1..(i - 1) : ClaimedTag(ops[j][3]) # tag

\* the place in the iteration of the operation an item was made from
PlaceOf(ops, item) == CHOOSE i \in 1..Len(ops) : ItemOf(ops[i]) = item

\* C4: a second convert_to_postman on the same converter and specification
\* leaves the collection the first one built; tag-groups are in the order in
\* which their tag first occurs in the iteration of the paths and their keys,
\* and the items of a group are in that iteration's order.
C4_SecondRunSameCollection ==
    (Converted /\ converted >= 2) =>
        LET ops == RecognizedOps(openapi_spec) IN
        /\ postman_collection = first_collection
        /\ \A g, h \in 1..Len(Groups) :
            g < h => FirstWithTag(ops, Item(Groups[g], "name")) < FirstWithTag(ops, Item(Groups[h], "name"))
        /\ \A g \in 1..Len(Groups) :
            LET members == Item(Groups[g], "item").xs IN
            \A m, n \in 1..Len(members) : m < n => PlaceOf(ops, members[m]) < PlaceOf(ops, members[n])

\* a document with operations under two tags, the second tag ahead of a
\* second operation of the first, was converted twice
C4_Witness ==
    /\ Converted
    /\ converted = 2
    /\ Len(Groups) = 2
    /\ Len(Item(Groups[1], "item").xs) = 2
    /\ LET ops == RecognizedOps(openapi_spec) IN
       /\ Len(ops) = 3
       /\ ClaimedTag(ops[1][3]) = ClaimedTag(ops[3][3])
       /\ ClaimedTag(ops[1][3]) # ClaimedTag(ops[2][3])

----------------------------------------------------------------------------
(* Claims about the body of a Request Item (under SpecMapper) *)

\* the application/json schema of the operation's request body, NoValue when
\* the operation declares none
DeclaredJsonSchema(details) ==
    IF /\ HasKey(details, "requestBody")
       /\ HasKey(Item(details, "requestBody"), "content")
       /\ HasKey(Item(Item(details, "requestBody"), "content"), "application/json")
       /\ HasKey(Item(Item(Item(details, "requestBody"), "content"), "application/json"), "schema")
    THEN Item(Item(Item(Item(details, "requestBody"), "content"), "application/json"), "schema")
    ELSE NoValue

\* the example with the two replacements of the verify endpoint: a field that
\* is present gets its fixed value, every other pair stays as it is
WithVerifyFields(example) ==
    Dict([i \in 1..Len(example.kv) |->
            IF example.kv[i][1] = "mobile" THEN <<"mobile", Tok("{{mobile}}")>>
            ELSE IF example.kv[i][1] = "otp" THEN <<"otp", Tok("1234")>>
            ELSE example.kv[i]])

\* the body the claim gives an operation with the schema
ClaimedRaw(path, schema) ==
    LET example == GenerateExampleBody(openapi_spec, schema, 1) IN
    Str(Dumps(IF path = <<"/", "common", "/", "verify">> THEN WithVerifyFields(example) ELSE example))

BodyIsRaw(request, path, schema) ==
    /\ HasKey(request, "body")
    /\ Item(Item(request, "body"), "mode") = Tok("raw")
    /\ Item(Item(request, "body"), "raw") = ClaimedRaw(path, schema)

\* C11 as stated: a Request Item has a body exactly when its operation
\* declares an application/json request-body schema; the raw body is the JSON
\* serialization of the synthesized example, unchanged but for /common/verify,
\* where mobile becomes "{{mobile}}" and otp "1234", each only if present.
C11_BodyWhenSchemaDeclared ==
    Mapped =>
        LET schema == DeclaredJsonSchema(arg.details)
            request == Item(out, "request")
        IN  IF schema = NoValue THEN ~HasKey(request, "body")
            ELSE BodyIsRaw(request, arg.path, schema)

\* C11 as amended: a Request Item has a body exactly when its operation
\* declares a non-empty application/json request-body schema; the raw body
\* is the JSON serialization of the synthesized example, unchanged but for
\* /common/verify, where mobile becomes "{{mobile}}" and otp "1234", each only
\* if present.
C11_BodyWhenSchemaNonEmpty ==
    Mapped =>
        LET schema == DeclaredJsonSchema(arg.details)
            request == Item(out, "request")
        IN  IF schema = NoValue \/ schema = EmptyDict THEN ~HasKey(request, "body")
            ELSE BodyIsRaw(request, arg.path, schema)

\* the verify operation with a schema of mobile alone was mapped: mobile
\* replaced, no otp added
C11_Witness ==
    /\ Mapped
    /\ arg.path = <<"/", "common", "/", "verify">>
    /\ DeclaredJsonSchema(arg.details) = MobileOnlySchema
    /\ Item(Item(Item(out, "request"), "body"), "raw") =
          Str(Dumps(Dict(<< <<"mobile", Tok("{{mobile}}")>> >>)))

----------------------------------------------------------------------------
(* Termination of the synthesizer (under SpecSynth) *)

\* C18: example synthesis terminates for every document: the chain of
\* recursive calls of _generate_example_body ends with a result, also for a
\* schema that refers back to itself, and never runs into the interpreter's
\* recursion limit.
C18_SynthesisTerminates ==
    Generated => out # Raise("RecursionError")

----------------------------------------------------------------------------
(* main and run: the pipeline (SpecRun) *)

\* the configurations config.json can hold: the full one, and one with a key missing
RunConfigs ==
    { LoadedConfig,
      Dict(<< <<"openapi_url", Item(LoadedConfig, "openapi_url")>>,
              <<"output_collection", Item(LoadedConfig, "output_collection")>> >>),
      Dict(<< <<"openapi_url", Item(LoadedConfig, "openapi_url")>>,
              <<"base_url", Item(LoadedConfig, "base_url")>> >>),
      Dict(<< <<"base_url", Item(LoadedConfig, "base_url")>>,
              <<"output_collection", Item(LoadedConfig, "output_collection")>> >>) }

\* the bodies a fetch can get: documents without paths, with one operation,
\* with an info that is no mapping, and JSON values that are no mapping
RunDocs ==
    { EmptyDict, Dict(<<DocInfo>>), Dict(<< <<"paths", EmptyDict>> >>),
      Dict(<< <<"info", Tok("Widget API")>>, <<"paths", EmptyDict>> >>),
      List(<<JInt(1)>>), EmptyList, Tok("ok") }
    \cup { Dict(<< DocInfo, <<"paths", Dict(<< <<p, Dict(<<e>>)>> >>)>>,
                   <<"components", Item(FullDoc, "components")>> >>) :
             p \in AssemblerPaths, e \in MethodEntries }

\* the request of fetch_openapi_spec fails (RequestException, JSONDecodeError)
RequestFailed == [t |-> "request failed"]

\* fetch_openapi_spec: self.openapi_spec afterwards and the outcome of the call
FetchOutcome(cfg, old_spec, response) ==
    IF ~HasKey(cfg, "openapi_url") THEN [spec |-> old_spec, result |-> "KeyError"]
    ELSE IF response = RequestFailed THEN [spec |-> old_spec, result |-> "False"]
    ELSE IF ~IsDict(response) \/ ~IsDict(Get(response, "info", EmptyDict))
    THEN [spec |-> response, result |-> "AttributeError"]
    ELSE [spec |-> response, result |-> "True"]

\* lines 672-689, with the convert step followed by the environments step whatever it returned
AfterStepIgnoringConvert(step, result) ==
    IF step = "convert_to_postman" /\ result = "False" THEN "generate_environments"
    ELSE IF result # "True" THEN "exited"
    ELSE CASE step = "fetch_openapi_spec" -> "convert_to_postman"
           [] step = "convert_to_postman" -> "generate_environments"
           [] step = "generate_environments" -> "save_files"
           [] OTHER -> "report"

\* lines 672-689: where run goes after a step, given what the step returned or raised
AfterStep(step, result) ==
    IF result # "True" THEN "exited"
    ELSE CASE step = "fetch_openapi_spec" -> "convert_to_postman"
           [] step = "convert_to_postman" -> "generate_environments"
           [] step = "generate_environments" -> "save_files"
           [] OTHER -> "report"

\* lines 731-739 with exit(0) in the handler of Exception
ExitCodeZeroOnException(result) ==
    IF result \in {"False", "KeyboardInterrupt"} THEN 1 ELSE 0

\* lines 731-739: the exit code, given what the constructor or run returned or raised
ExitCode(result) == IF result = "True" THEN 0 ELSE 1

InitRun ==
    /\ config = Null
    /\ openapi_spec = Null
    /\ postman_collection = Null
    /\ postman_environments = Null
    /\ last_result = NoCall
    /\ converted = 0
    /\ first_collection = Null
    /\ fn = "none"
    /\ arg = NoValue
    /\ out = NoValue
    /\ pc = "main"
    /\ steps = <<>>
    /\ files = <<>>
    /\ exit_code = <<>>
    /\ env = NoValue
    /\ now = 0

\* a step of run ended with the result
Ended(step, result) ==
    /\ last_result' = Outcome(step, result)
    /\ steps' = Append(steps, <<step, result>>)
    /\ pc' = AfterStep(step, result)
    /\ exit_code' = IF AfterStep(step, result) = "exited" THEN <<ExitCode(result)>> ELSE <<>>

\* OpenAPIToPostmanConverter("config.json"): the configuration is loaded, or
\* _load_config raises
Construct ==
    /\ pc = "main"
    /\ \/ /\ \E cfg \in RunConfigs : config' = cfg
          /\ last_result' = Outcome("__init__", "True")
          /\ pc' = "fetch_openapi_spec"
          /\ UNCHANGED exit_code
       \/ /\ \E exc \in {"FileNotFoundError", "JSONDecodeError"} :
                /\ last_result' = Outcome("__init__", exc)
                /\ exit_code' = <<ExitCode(exc)>>
          /\ pc' = "exited"
          /\ UNCHANGED config
    /\ UNCHANGED <<openapi_spec, postman_collection, postman_environments, converted,
                   first_collection, fn, arg, out, steps, files, env, now>>

RunFetch ==
    /\ pc = "fetch_openapi_spec"
    /\ \E response \in RunDocs \cup {RequestFailed} :
         \E o \in {FetchOutcome(config, openapi_spec, response)} :
            /\ openapi_spec' = o.spec
            /\ Ended("fetch_openapi_spec", o.result)
    /\ UNCHANGED <<config, postman_collection, postman_environments, converted,
                   first_collection, fn, arg, out, files, env, now>>

RunConvert ==
    /\ pc = "convert_to_postman"
    /\ \E o \in {ConvertOutcome(openapi_spec, config, postman_collection)} :
        /\ postman_collection' = o.collection
        /\ converted' = IF o.result = "True" THEN converted + 1 ELSE converted
        /\ first_collection' = IF o.result = "True" /\ converted = 0 THEN o.collection
                               ELSE first_collection
        /\ Ended("convert_to_postman", o.result)
    /\ UNCHANGED <<config, openapi_spec, postman_environments, fn, arg, out, files, env, now>>

RunGenerateEnvironments ==
    /\ pc = "generate_environments"
    /\ \E o \in {GenerateOutcome(openapi_spec, config, postman_environments)} :
        /\ postman_environments' = o.environments
        /\ Ended("generate_environments", o.result)
    /\ UNCHANGED <<config, openapi_spec, postman_collection, converted, first_collection,
                   fn, arg, out, files, env, now>>

RunSaveFiles ==
    /\ pc = "save_files"
    /\ \E fail \in 0..5 :
         \E o \in {SaveOutcome(config, postman_collection, postman_environments, fail)} :
            /\ files' = o.files
            /\ Ended("save_files", o.result)
    /\ UNCHANGED <<config, openapi_spec, postman_collection, postman_environments, converted,
                   first_collection, fn, arg, out, env, now>>

\* lines 693-725 and 732: run reports, returns True, and main exits
Report ==
    /\ pc = "report"
    /\ last_result' = Outcome("run", "True")
    /\ pc' = "exited"
    /\ exit_code' = <<ExitCode("True")>>
    /\ UNCHANGED <<config, openapi_spec, postman_collection, postman_environments, converted,
                   first_collection, fn, arg, out, steps, files, env, now>>

\* the user interrupts the program; a step that is interrupted fails with it
KeyboardInterrupt ==
    /\ pc \notin {"none", "exited"}
    /\ last_result' = Outcome(pc, "KeyboardInterrupt")
    /\ steps' = IF pc \in {"main", "report"} THEN steps ELSE Append(steps, <<pc, "KeyboardInterrupt">>)
    /\ pc' = "exited"
    /\ exit_code' = <<ExitCode("KeyboardInterrupt")>>
    /\ UNCHANGED <<config, openapi_spec, postman_collection, postman_environments, converted,
                   first_collection, fn, arg, out, files, env, now>>

NextRun ==
    \/ Construct
    \/ RunFetch
    \/ RunConvert
    \/ RunGenerateEnvironments
    \/ RunSaveFiles
    \/ Report
    \/ KeyboardInterrupt

SpecRun == InitRun /\ [][NextRun]_vars

----------------------------------------------------------------------------
(* Claims about the environments and the pipeline (under SpecRun) *)

\* generate_environments was the last step and returned True
EnvironmentsGenerated == last_result = Outcome("generate_environments", "True")

\* an environment without what may differ between roles: its id, its name
\* and the value of its role record
WithoutRole(environment) ==
    LET values == Item(environment, "values").xs IN
    [ scope |-> Item(environment, "_postman_variable_scope"),
      exported_at |-> Item(environment, "_postman_exported_at"),
      exported_using |-> Item(environment, "_postman_exported_using"),
      keys |-> Keys(environment),
      values |-> [i \in 1..Len(values) |->
                    IF Item(values[i], "key") = Tok("role") THEN SetItem(values[i], "value", Null)
                    ELSE values[i]] ]

\* the title the names of the environments start with
TitleOf(doc) ==
    IF HasKey(doc, "info") /\ HasKey(Item(doc, "info"), "title") THEN Item(Item(doc, "info"), "title").s
    ELSE <<"API">>

\* C12: generate_environments on a loaded specification produces exactly
\* three environments, Admin, Teacher and Student, identical except for the
\* role value, the id and the name suffix; each has the six variable records
\* base_url, access_token, token_expiry, user_id, role, mobile in that order,
\* access_token alone of type secret, base_url holding the configured URL.
C12_ThreeRoleEnvironments ==
    EnvironmentsGenerated =>
        LET envs == postman_environments.xs
            role == <<"Admin", "Teacher", "Student">>
            lower == <<"admin", "teacher", "student">>
            keys == <<"base_url", "access_token", "token_expiry", "user_id", "role", "mobile">>
        IN  /\ Len(envs) = 3
            /\ \A i \in 1..3 :
                LET values == Item(envs[i], "values").xs IN
                /\ WithoutRole(envs[i]) = WithoutRole(envs[1])
                /\ Item(envs[i], "id") = Str(<<"auto-generated-env-", lower[i]>>)
                /\ Item(envs[i], "name") = Str(TitleOf(openapi_spec) \o <<" Environment (", role[i], ")">>)
                /\ Len(values) = 6
                /\ \A j \in 1..6 :
                    /\ Item(values[j], "key") = Tok(keys[j])
                    /\ Item(values[j], "type") = Tok("secret") <=> keys[j] = "access_token"
                /\ Item(values[1], "value") = Item(config, "base_url")
                /\ Item(values[5], "value") = Tok(lower[i])

\* the environments of a fetched document with a title were generated
C12_Witness ==
    /\ EnvironmentsGenerated
    /\ pc = "save_files"
    /\ Item(postman_environments.xs[3], "name") = Str(<<"Widget API", " Environment (", "Student", ")">>)

\* the names of the four steps in the order of run
StepOrder == <<"fetch_openapi_spec", "convert_to_postman", "generate_environments", "save_files">>

\* C13: run starts the steps in the order fetch, convert, generate
\* environments, save; a step starts only if every earlier step returned
\* success, and the first step that fails ends run with a failure, no later
\* step started. No file is written unless the specification was fetched and
\* the collection and the environments were built, and after a failed write
\* no further file is written.
C13_StepsInOrder ==
    /\ Len(steps) <= Len(StepOrder)
    /\ \A i \in 1..Len(steps) :
        /\ steps[i][1] = StepOrder[i]
        /\ i < Len(steps) => steps[i][2] = "True"
    /\ (steps # <<>> /\ steps[Len(steps)][2] # "True") => pc = "exited" /\ exit_code = <<1>>
    /\ files # <<>> =>
        /\ Len(steps) = 4
        /\ IsDict(openapi_spec) /\ IsDict(postman_collection)
        /\ postman_environments.t = "list" /\ Len(postman_environments.xs) = 3
    /\ \A i \in 1..Len(files) : files[i][2] = "failed" => i = Len(files)
    /\ pc \in {"convert_to_postman", "generate_environments", "save_files"} =>
        /\ steps # <<>>
        /\ pc = StepOrder[Len(steps) + 1]

\* the collection was written, then the write of the first environment failed
C13_Witness ==
    /\ pc = "exited"
    /\ Len(steps) = 4
    /\ steps[4] = <<"save_files", "False">>
    /\ Len(files) = 2
    /\ files[1][2] = "written"
    /\ files[2] = <<Tok("postman_environment_admin.json"), "failed">>

\* all four steps were started and returned success
AllStepsSucceeded ==
    /\ Len(steps) = 4
    /\ \A i \in 1..4 : steps[i][2] = "True"

\* C14: the exit code is 0 exactly when all four steps succeeded, and 1 on
\* every failure: a configuration that cannot be loaded (before any fetch is
\* attempted), a step that returns failure, an exception raised in a step,
\* and a keyboard interrupt.
C14_ExitCode ==
    /\ pc # "exited" <=> exit_code = <<>>
    /\ pc = "exited" =>
        /\ exit_code \in {<<0>>, <<1>>}
        /\ exit_code = <<0>> <=> (AllStepsSucceeded /\ last_result.result # "KeyboardInterrupt")
        /\ last_result.call = "__init__" => exit_code = <<1>> /\ steps = <<>>
        /\ last_result.result \notin {"True", "False"} => exit_code = <<1>>

\* the fetched document was no mapping: the AttributeError of the fetch step
\* ended the process with exit code 1
C14_Witness ==
    /\ pc = "exited"
    /\ exit_code = <<1>>
    /\ steps = << <<"fetch_openapi_spec", "AttributeError">> >>
    /\ openapi_spec = List(<<JInt(1)>>)

----------------------------------------------------------------------------
(* The emitted hooks, as Postman runs them (JavaScript) *)

Undefined == [t |-> "undefined"]

\* the decimal string of the time n, as expiryTime.toString() gives it
TimeStr(n) == [t |-> "timestr", n |-> n]

\* the truthiness of a JavaScript value
JsTruthy(v) ==
    CASE v.t \in {"null", "undefined"} -> FALSE
      [] v.t = "bool" -> v.b
      [] v.t \in {"int", "float"} -> v.n # 0
      [] v.t = "str" -> v.s # <<>>
      [] OTHER -> TRUE

\* obj.k of an object; undefined when obj has no such property
Prop(obj, k) == IF obj.t = "dict" /\ HasKey(obj, k) THEN Item(obj, k) ELSE Undefined

\* reading a property of null or undefined throws a TypeError
Throws(obj) == obj.t \in {"null", "undefined"}

RECURSIVE FirstTruthy(_, _, _)
\* a || b || ... || last
FirstTruthy(vs, i, last) ==
    IF i > Len(vs) THEN last
    ELSE IF JsTruthy(vs[i]) THEN vs[i]
    ELSE FirstTruthy(vs, i + 1, last)

\* String.prototype.includes
Includes(s, sub) == \E i \in 1..(Len(s) - Len(sub) + 1) : SubSeq(s, i, i + Len(sub) - 1) = sub

RECURSIVE TrimLeft(_)
TrimLeft(s) == IF s # <<>> /\ Head(s) = " " THEN TrimLeft(Tail(s)) ELSE s

RECURSIVE TrimRight(_)
TrimRight(s) == IF s # <<>> /\ s[Len(s)] = " " THEN TrimRight(SubSeq(s, 1, Len(s) - 1)) ELSE s

\* String.prototype.trim
Trim(s) == TrimRight(TrimLeft(s))

\* String.prototype.toLowerCase on the role names of the model
ToLowerCase(v) == Str([i \in 1..Len(v.s) |-> LowerRole(v.s[i])])

\* v.toString() of a string or a number
ToStr(v) == IF v.t = "str" THEN v ELSE Str(<<NumTok(v.n)>>)

\* line 392: 24 hours, in the unit of `now` (one day)
TokenLifetime == 1

\* lines 323-328: isPublicEndpoint of the collection pre-request hook
HookIsPublic(requestUrl, base_url) ==
    \/ Includes(requestUrl, <<"/", "common", "/", "login">>)
    \/ Includes(requestUrl, <<"/", "common", "/", "verify">>)
    \/ Includes(requestUrl, <<"/", "common", "/", "signup">>)
    \/ requestUrl = base_url \o <<"/">>
    \/ Includes(requestUrl, <<"/", "docs">>)
    \/ Includes(requestUrl, <<"/", "openapi.json">>)

\* lines 320-353 with the expired token left in the environment
CollectionPrerequestKeepingToken(e, time, request) ==
    IF HookIsPublic(request.url, e.base_url.s) THEN [env |-> e, branch |-> "public"]
    ELSE IF ~JsTruthy(e.access_token) THEN [env |-> e, branch |-> "no token"]
    ELSE IF e.access_token.t # "str" THEN [env |-> e, branch |-> "TypeError"]
    ELSE IF Trim(e.access_token.s) = <<>> THEN [env |-> e, branch |-> "no token"]
    ELSE IF JsTruthy(e.token_expiry) /\ e.token_expiry.t = "timestr" /\ time > e.token_expiry.n
    THEN [env |-> e, branch |-> "expired"]
    ELSE IF request.auth = BearerAuth THEN [env |-> e, branch |-> "bearer"]
    ELSE [env |-> e, branch |-> "bearer not configured"]

\* lines 320-353: the collection pre-request hook; the environment afterwards
\* and the branch it took
CollectionPrerequest(e, time, request) ==
    IF HookIsPublic(request.url, e.base_url.s) THEN [env |-> e, branch |-> "public"]
    ELSE IF ~JsTruthy(e.access_token) THEN [env |-> e, branch |-> "no token"]
    ELSE IF e.access_token.t # "str" THEN [env |-> e, branch |-> "TypeError"]
    ELSE IF Trim(e.access_token.s) = <<>> THEN [env |-> e, branch |-> "no token"]
    ELSE IF JsTruthy(e.token_expiry) /\ e.token_expiry.t = "timestr" /\ time > e.token_expiry.n
    THEN [env |-> [e EXCEPT !.access_token = Str(<<>>)], branch |-> "expired"]
    ELSE IF request.auth = BearerAuth THEN [env |-> e, branch |-> "bearer"]
    ELSE [env |-> e, branch |-> "bearer not configured"]

\* the text of a request or response body that JSON.parse accepts, giving v
JsonText(v) == [t |-> "json", v |-> v]

\* a text JSON.parse rejects
BadText == Tok("not json")

\* a body of mode raw
SentBody(text) == [t |-> "raw", raw |-> text]

\* line 254: !bodyText || bodyText.trim() === ''
BlankText(text) == text.t = "undefined" \/ (text.t = "str" /\ Trim(text.s) = <<>>)

\* line 259: bodyText.replace(/\{\{mobile\}\}/g, savedMobile) on a text whose
\* object has {{mobile}} in string members
ReplaceMobile(text, savedMobile) ==
    IF text.t = "json" /\ text.v.t = "dict"
    THEN JsonText(Dict([i \in 1..Len(text.v.kv) |->
            IF text.v.kv[i][2] = Tok("{{mobile}}")
            THEN <<text.v.kv[i][1], savedMobile>>
            ELSE text.v.kv[i]]))
    ELSE text

\* lines 270-276: body.mobile = savedMobile and the default otp; assigning a
\* property of a number or a string does nothing
WithMobileAndOtp(body, savedMobile) ==
    IF body.t # "dict" THEN body
    ELSE Bind(SetItem(body, "mobile", savedMobile), LAMBDA b :
            IF ~JsTruthy(Prop(b, "otp")) THEN SetItem(b, "otp", Tok("1234")) ELSE b)

\* lines 248-299: the pre-request hook of the /common/verify item; the body
\* of the request afterwards
VerifyPrerequest(e, body) ==
    IF ~(JsTruthy(e.mobile) /\ Trim(e.mobile.s) # <<>>) THEN body
    ELSE Bind(IF body.t = "undefined" THEN JsonText(EmptyDict) ELSE body.raw, LAMBDA given :
         Bind(IF BlankText(given)
              THEN JsonText(Dict(<< <<"mobile", Str(<<>>)>>, <<"otp", Tok("1234")>> >>))
              ELSE given, LAMBDA bodyText :
         Bind(ReplaceMobile(bodyText, e.mobile), LAMBDA replaced :
         Bind(IF replaced.t = "json" THEN replaced.v
              ELSE Dict(<< <<"mobile", e.mobile>>, <<"otp", Tok("1234")>> >>), LAMBDA parsed :
            IF Throws(parsed) \/ body.t = "undefined" THEN body
            ELSE SentBody(JsonText(WithMobileAndOtp(parsed, e.mobile)))))))

\* lines 373-376: extractToken
ExtractToken(obj) ==
    IF ~JsTruthy(obj) THEN Null
    ELSE FirstTruthy(<<Prop(obj, "access_token"), Prop(obj, "token"), Prop(obj, "accessToken")>>, 1, Null)

\* lines 379-382: extractRole
ExtractRole(obj) ==
    IF ~JsTruthy(obj) THEN Null
    ELSE FirstTruthy(<<Prop(obj, "role")>>, 1, Null)

\* lines 385-397: the access token and its expiry
SaveToken(e, time, response) ==
    Bind(FirstTruthy(<<ExtractToken(response), ExtractToken(Prop(response, "data"))>>, 1,
                     ExtractToken(Prop(response, "result"))), LAMBDA accessToken :
        IF JsTruthy(accessToken)
        THEN [e EXCEPT !.access_token = accessToken, !.token_expiry = TimeStr(time + TokenLifetime)]
        ELSE e)

\* line 400
RoleIn(response) ==
    FirstTruthy(<<ExtractRole(response), ExtractRole(Prop(response, "data"))>>, 1,
                ExtractRole(Prop(response, "result")))

\* lines 420-426: the user identifier
SaveUserId(e, response) ==
    IF JsTruthy(Prop(response, "user_id"))
    THEN [e EXCEPT !.user_id = ToStr(Prop(response, "user_id"))]
    ELSE IF JsTruthy(Prop(response, "data")) /\ JsTruthy(Prop(Prop(response, "data"), "user_id"))
    THEN [e EXCEPT !.user_id = ToStr(Prop(Prop(response, "data"), "user_id"))]
    ELSE e

\* lines 429-449: the phone number of a login request
SaveMobile(e, request) ==
    IF ~Includes(request.url, <<"/", "common", "/", "login">>) THEN e
    ELSE IF request.body.t = "undefined" THEN e
    ELSE IF ~JsTruthy(request.body.raw) THEN e
    ELSE IF request.body.raw.t # "json" THEN e
    ELSE IF Throws(request.body.raw.v) THEN e
    ELSE IF ~JsTruthy(Prop(request.body.raw.v, "mobile")) THEN e
    ELSE [e EXCEPT !.mobile = Str(Trim(ToStr(Prop(request.body.raw.v, "mobile")).s))]

\* lines 365-473: the collection test hook; the environment afterwards. An
\* exception inside the try ends the hook with what was stored before it.
TestHook(e, time, request, response) ==
    IF response.code # 200 THEN e
    ELSE IF response.text.t # "json" \/ Throws(response.text.v) THEN e
    ELSE Bind(SaveToken(e, time, response.text.v), LAMBDA e1 :
            IF JsTruthy(RoleIn(response.text.v)) /\ RoleIn(response.text.v).t # "str" THEN e1
            ELSE Bind(IF JsTruthy(RoleIn(response.text.v))
                      THEN [e1 EXCEPT !.role = ToLowerCase(RoleIn(response.text.v))]
                      ELSE e1, LAMBDA e2 :
                    SaveMobile(SaveUserId(e2, response.text.v), request)))

----------------------------------------------------------------------------
(* The generator's and the hook's classification of a request (under SpecMapper) *)

\* pm.request.url.toString() of the request of an item; {{base_url}} stands
\* for the value of base_url on both sides of the hook's comparison
RequestUrlOf(item) == Item(Item(Item(item, "request"), "url"), "raw").s

\* C19: a Request Item carries the no-auth block exactly when the collection
\* pre-request hook treats its request {{base_url}}+path as a public endpoint.
C19_ClassificationsAgree ==
    Mapped =>
        (Item(Item(out, "request"), "auth") = NoAuth <=> HookIsPublic(RequestUrlOf(out), <<"{{base_url}}">>))

----------------------------------------------------------------------------
(* A Postman session that runs the emitted hooks (SpecHooks) *)

\* the latest time of the session, in days
MaxTime == 3

LoginPath == <<"/", "common", "/", "login">>

HookPaths == { LoginPath, VerifyPath, <<"/", "widgets">>, <<"/", "docs">>, <<"widgets">> }

\* the bodies the user sends: none, or a raw text
BodiesFor(path) ==
    IF path = LoginPath
    THEN { Undefined,
           SentBody(BadText),
           SentBody(JsonText(EmptyDict)),
           SentBody(JsonText(Dict(<< <<"mobile", Tok("555")>> >>))),
           SentBody(JsonText(Dict(<< <<"mobile", Str(<<" ", "555">>)>> >>))) }
    ELSE IF path = VerifyPath
    THEN { Undefined,
           SentBody(Str(<<>>)),
           SentBody(BadText),
           SentBody(JsonText(Null)),
           SentBody(JsonText(Dict(<< <<"mobile", Tok("{{mobile}}")>>, <<"otp", Tok("1234")>> >>))),
           SentBody(JsonText(Dict(<< <<"mobile", Tok("999")>>, <<"otp", Tok("9")>> >>))) }
    ELSE { Undefined }

\* the request of the item made for a path, as the hooks see it
Request(e, path, body) ==
    [url |-> e.base_url.s \o path, path |-> path, auth |-> AuthFor(path), body |-> body, sent |-> body]

ResponseTexts ==
    { BadText,
      JsonText(Null),
      JsonText(EmptyDict),
      JsonText(Dict(<< <<"access_token", Tok("t1")>> >>)),
      JsonText(Dict(<< <<"data", Dict(<< <<"token", Tok(" ")>> >>)>> >>)),
      JsonText(Dict(<< <<"result", Dict(<< <<"accessToken", Tok("t1")>>, <<"role", Tok("Admin")>>,
                                           <<"user_id", JInt(7)>> >>)>> >>)),
      JsonText(Dict(<< <<"role", Tok("Teacher")>>, <<"user_id", JInt(7)>> >>)),
      JsonText(Dict(<< <<"data", Dict(<< <<"user_id", JInt(7)>> >>)>> >>)),
      JsonText(Dict(<< <<"role", JInt(7)>>, <<"user_id", JInt(7)>> >>)) }

Responses ==
    [code : {200}, text : ResponseTexts]
    \cup [code : {201, 401}, text : {JsonText(Dict(<< <<"access_token", Tok("t1")>> >>))}]

\* the value of a variable of a generated environment
EnvValue(environment, key) ==
    LET values == Item(environment, "values").xs IN
    Item(values[CHOOSE i \in 1..Len(values) : Item(values[i], "key") = Tok(key)], "value")

\* the Postman environment imported from a generated environment file
Imported(environment) ==
    [k \in {"base_url", "access_token", "token_expiry", "user_id", "role", "mobile"} |->
        EnvValue(environment, k)]

\* the collection and one of the generated environments are imported
InitHooks ==
    /\ openapi_spec = FullDoc
    /\ config = LoadedConfig
    /\ postman_collection = Null
    /\ last_result = NoCall
    /\ converted = 0
    /\ first_collection = Null
    /\ postman_environments = GenerateOutcome(FullDoc, LoadedConfig, Null).environments
    /\ env \in { Imported(postman_environments.xs[i]) : i \in 1..Len(postman_environments.xs) }
    /\ now = 0
    /\ pc = "idle"
    /\ fn = "none"
    /\ arg = NoValue
    /\ out = NoValue
    /\ steps = <<>>
    /\ files = <<>>
    /\ exit_code = <<>>

\* a request is sent: the collection pre-request hook runs, then the hook of
\* the item (only the /common/verify item has one)
SendRequest ==
    /\ pc = "idle"
    /\ \E path \in HookPaths :
        \E body \in BodiesFor(path) :
            \E o \in {CollectionPrerequest(env, now, Request(env, path, body))} :
                /\ env' = o.env
                /\ out' = o.branch
                /\ arg' = [Request(env, path, body) EXCEPT
                              !.sent = IF path = VerifyPath THEN VerifyPrerequest(o.env, body) ELSE body]
    /\ pc' = "sent"
    /\ fn' = "prerequest"
    /\ UNCHANGED <<openapi_spec, postman_collection, last_result, converted, first_collection, config,
                   postman_environments, steps, files, exit_code, now>>

\* the response arrives and the collection test hook runs
ReceiveResponse ==
    /\ pc = "sent"
    /\ \E response \in Responses :
        /\ env' = TestHook(env, now, [arg EXCEPT !.body = arg.sent], response)
        /\ out' = response
    /\ pc' = "received"
    /\ fn' = "test"
    /\ UNCHANGED <<openapi_spec, postman_collection, last_result, converted, first_collection, config,
                   postman_environments, steps, files, exit_code, now, arg>>

\* no response arrives: no test hook runs
NoResponse ==
    /\ pc = "sent"
    /\ pc' = "idle"
    /\ fn' = "none"
    /\ arg' = NoValue
    /\ out' = NoValue
    /\ UNCHANGED <<openapi_spec, postman_collection, last_result, converted, first_collection, config,
                   postman_environments, steps, files, exit_code, now, env>>

\* the request is over
Done ==
    /\ pc = "received"
    /\ pc' = "idle"
    /\ fn' = "none"
    /\ arg' = NoValue
    /\ out' = NoValue
    /\ UNCHANGED <<openapi_spec, postman_collection, last_result, converted, first_collection, config,
                   postman_environments, steps, files, exit_code, now, env>>

\* time passes between requests
Tick ==
    /\ pc = "idle"
    /\ now < MaxTime
    /\ now' = now + 1
    /\ UNCHANGED <<openapi_spec, postman_collection, last_result, converted, first_collection, config,
                   postman_environments, steps, files, exit_code, env, pc, fn, arg, out>>

NextHooks == SendRequest \/ ReceiveResponse \/ NoResponse \/ Done \/ Tick

SpecHooks == InitHooks /\ [][NextHooks]_vars

----------------------------------------------------------------------------
(* Claims about the emitted hooks (under SpecHooks) *)

\* a step in which a request is sent and the pre-request hooks run
SendStep == pc = "idle" /\ pc' = "sent"

\* a step in which the test hook runs on a response
ResponseStep == pc = "sent" /\ pc' = "received"

\* the token_expiry stored before the step lies in the past
ExpiryPassed == env.token_expiry.t = "timestr" /\ env.token_expiry.n < now

\* the request sent in the step is to an endpoint the hook takes as public
SentPublic == HookIsPublic(arg'.url, env.base_url.s)

\* what C15 says of a step, for the stored tokens that HasToken selects
TokenClearing(HasToken(_)) ==
    /\ (SendStep /\ ~SentPublic /\ HasToken(env.access_token) /\ ExpiryPassed)
          => env'.access_token = Str(<<>>)
    /\ (SendStep /\ ~SentPublic /\ env.access_token = Str(<<>>)) => out' = "no token"
    /\ (env.access_token = Str(<<>>) /\ env'.access_token # Str(<<>>)) => ResponseStep
    /\ (SendStep /\ SentPublic) => env' = env

NonEmptyToken(token) == token # Str(<<>>)

NonBlankToken(token) == token.t = "str" /\ Trim(token.s) # <<>>

\* C15 as stated: a non-public request sent with a non-empty stored
\* access_token and a token_expiry in the past sets access_token to empty;
\* a non-public request sent with an empty token takes the no-token branch,
\* and only a response stores a token again; a public request changes no
\* stored variable.
C15_ClearsNonEmptyExpiredToken == [][TokenClearing(NonEmptyToken)]_vars

\* C15, amended: the expired token is set to empty when it is not blank (it
\* has a character other than white space); the rest as stated.
C15_ClearsNonBlankExpiredToken == [][TokenClearing(NonBlankToken)]_vars

\* a non-public request was sent after the stored token t1 had expired, and
\* the hook emptied access_token
C15_Witness ==
    /\ pc = "sent"
    /\ out = "expired"
    /\ ~HookIsPublic(arg.url, env.base_url.s)
    /\ env.access_token = Str(<<>>)
    /\ env.token_expiry.t = "timestr"
    /\ env.token_expiry.n < now

\* the first truthy member named by one of keys at the top level of a
\* response body, inside its `data` or inside its `result`
Present(body, keys) ==
    LET Member(obj) == FirstTruthy([i \in 1..Len(keys) |-> Prop(obj, keys[i])], 1, Null) IN
    FirstTruthy(<<Member(body), Member(Prop(body, "data"))>>, 1, Member(Prop(body, "result")))

\* the response of the step is a success (200) with a JSON body
SuccessWithJson == out'.code = 200 /\ out'.text.t = "json"

\* C16: when the test hook runs on a success response with a JSON body, each
\* of the access token, the role and the user identifier present at the top
\* level or inside a `data` or `result` wrapper is stored into access_token,
\* role (in lower case) and user_id; on any other response every stored
\* variable stays as it was.
C16_StoresWhatIsPresent ==
    [][ResponseStep =>
          IF SuccessWithJson
          THEN LET body == out'.text.v
                   token == Present(body, <<"access_token", "token", "accessToken">>)
                   role == Present(body, <<"role">>)
                   user_id == Present(body, <<"user_id">>)
               IN /\ JsTruthy(token) => env'.access_token = token
                  /\ JsTruthy(role) => env'.role = IF role.t = "str" THEN ToLowerCase(role) ELSE role
                  /\ JsTruthy(user_id) => env'.user_id = ToStr(user_id)
          ELSE env' = env]_vars

\* the phone number that the body of a request carries, Null when none
PhoneIn(body) ==
    IF body.t = "raw" /\ body.raw.t = "json" THEN FirstTruthy(<<Prop(body.raw.v, "mobile")>>, 1, Null)
    ELSE Null

\* the body is missing, empty or not valid JSON
NoUsableBody(body) == body.t = "undefined" \/ body.raw.t # "json"

\* the minimal default body with the phone number m
DefaultBody(m) == SentBody(JsonText(Dict(<< <<"mobile", m>>, <<"otp", Tok("1234")>> >>)))

\* C17: when a login request whose body carries a phone number m is answered
\* with success, the stored `mobile` is m afterwards; the pre-request hook of
\* a /common/verify request sent while a phone number m is stored makes the
\* `mobile` field of the outgoing body m, and the outgoing body the default
\* body (mobile m, otp 1234) when the given body is missing, empty or not
\* valid JSON; with no phone number stored the body goes out as given.
C17_LoginPhoneReachesVerify ==
    [][/\ (ResponseStep /\ arg.path = LoginPath /\ JsTruthy(PhoneIn(arg.sent)) /\ out'.code = 200)
            => env'.mobile = PhoneIn(arg.sent)
       /\ (SendStep /\ arg'.path = VerifyPath /\ env.mobile # Str(<<>>))
            => /\ PhoneIn(arg'.sent) = env.mobile
               /\ NoUsableBody(arg'.body) => arg'.sent = DefaultBody(env.mobile)
       /\ (SendStep /\ arg'.path = VerifyPath /\ env.mobile = Str(<<>>))
            => arg'.sent = arg'.body]_vars

====
